---- MODULE Spec2Model ----
(***************************************************************************)
(* Model of the streaming session / turn orchestration core of the        *)
(* Claude/Codex Telegram bot (src/src/session.ts and its callers).        *)
(*                                                                         *)
(* Strings are TLA+ strings; s.slice(0, n) is Slice(s, n).  Dates are the  *)
(* single value Date (only "null or set" is observable in the claims).    *)
(* JavaScript null is the string Null, which no input ever equals.        *)
(***************************************************************************)
EXTENDS Integers, Sequences, FiniteSets, TLC

(***************************************************************************)
(* Bounds of the model.                                                    *)
(***************************************************************************)
\* longest single text block a backend delivers
MaxBlockLen == 2
\* backend events / content blocks consumed over all turns (turn runner)
MaxSteps == 3
\* backend events / content blocks consumed over all turns (session commands)
MaxCmdSteps == 2
\* number of turns started
MaxTurns == 1
\* number of session commands (setModel, kill, resumeSession) issued
MaxOps == 2
\* number of stop requests issued
MaxStops == 1
\* latest reading of the clock (milliseconds, scaled)
MaxClock == 1
\* largest configured STREAMING_SYNTHETIC_FALLBACK_MIN_CHARS
MaxMinChars == 2
\* largest configured STREAMING_SYNTHETIC_STEP_CHARS
MaxStepChars == 1
\* largest configured STREAMING_THROTTLE_MS
MaxThrottle == 1
\* session ids captured and saved in a run of the persistence specification
MaxSaves == 3

Null == "<null>"
Date == "<date>"

(***************************************************************************)
(* String helpers (JavaScript String methods used by session.ts).         *)
(***************************************************************************)
Min(a, b) == IF a <= b THEN a ELSE b
Max(a, b) == IF a >= b THEN a ELSE b

CharAt(s, i) == SubSeq(s, i, i)

\* s.slice(0, n) for n >= 0
Slice(s, n) == SubSeq(s, 1, Min(n, Len(s)))

\* s.slice(k) for 0 <= k (0-based start)
SliceFrom(s, k) == SubSeq(s, k + 1, Len(s))

IsSpace(c) == c \in {" ", "\t"}

LowerChar(c) ==
  CASE c = "A" -> "a" [] c = "B" -> "b" [] c = "C" -> "c" [] c = "D" -> "d"
    [] c = "E" -> "e" [] c = "F" -> "f" [] c = "G" -> "g" [] c = "H" -> "h"
    [] c = "I" -> "i" [] c = "J" -> "j" [] c = "K" -> "k" [] c = "L" -> "l"
    [] c = "M" -> "m" [] c = "N" -> "n" [] c = "O" -> "o" [] c = "P" -> "p"
    [] c = "Q" -> "q" [] c = "R" -> "r" [] c = "S" -> "s" [] c = "T" -> "t"
    [] c = "U" -> "u" [] c = "V" -> "v" [] c = "W" -> "w" [] c = "X" -> "x"
    [] c = "Y" -> "y" [] c = "Z" -> "z" [] OTHER -> c

RECURSIVE toLowerCase(_)
toLowerCase(s) ==
  IF Len(s) = 0 THEN ""
  ELSE LowerChar(CharAt(s, 1)) \o toLowerCase(SliceFrom(s, 1))

RECURSIVE trimStart(_)
trimStart(s) ==
  IF Len(s) > 0 /\ IsSpace(CharAt(s, 1)) THEN trimStart(SliceFrom(s, 1)) ELSE s

RECURSIVE trimEnd(_)
trimEnd(s) ==
  IF Len(s) > 0 /\ IsSpace(CharAt(s, Len(s)))
  THEN trimEnd(Slice(s, Len(s) - 1)) ELSE s

\* variant of trim that keeps the surrounding whitespace
trim_None(s) == s

trim(s) == trimEnd(trimStart(s))

startsWith(s, p) == Len(s) >= Len(p) /\ Slice(s, Len(p)) = p

endsWith(s, p) == Len(s) >= Len(p) /\ SliceFrom(s, Len(s) - Len(p)) = p

(***************************************************************************)
(* Model-selection parsing.                                                *)
(***************************************************************************)
CLAUDE_MODEL == "claude-opus-4-6"
CODEX_MODEL == "gpt-5.3-codex"
CODEX_REASONING_EFFORT == "medium"
CLAUDE_REASONING_EFFORT == "high"
MAX_SESSIONS == 5
WORKING_DIR == "/work"

Efforts == {"minimal", "low", "medium", "high", "xhigh"}

\* the character class [\s._-]
IsTokenSep(c) == IsSpace(c) \/ c \in {".", "_", "-"}

\* the character class [\s_-]
IsPresetSep(c) == IsSpace(c) \/ c \in {"_", "-"}

RECURSIVE compactToken(_)
compactToken(value) ==
  IF Len(value) = 0 THEN ""
  ELSE (IF IsTokenSep(CharAt(value, 1)) THEN "" ELSE LowerChar(CharAt(value, 1)))
       \o compactToken(SliceFrom(value, 1))

isCodexAlias(base) == compactToken(base) = "codex"

isCodex53Alias(base) == compactToken(base) \in {"codex53", "gpt53codex"}

parseEffortToken(token) ==
  IF compactToken(token) \in Efforts THEN compactToken(token) ELSE Null

parseClaudeAlias(selection) ==
  LET compact == compactToken(selection) IN
  IF compact \in {"claude46opus", "opus46"} THEN "claude-opus-4-6"
  ELSE IF compact \in {"claude45sonnet", "sonnet45"} THEN "claude-sonnet-4-5"
  ELSE Null

\* start (0-based) of the run of [\s_-] characters that ends at position j
RECURSIVE SepRunStart(_, _)
SepRunStart(s, j) ==
  IF j > 0 /\ IsPresetSep(CharAt(s, j)) THEN SepRunStart(s, j - 1) ELSE j

NoPreset == [model |-> Null, effort |-> Null]

\* /^(.*?)[\s_-]+(minimal|low|medium|high|xhigh)$/ : the lazy group is the
\* text before the separator run that precedes the trailing effort word
SpacedMatch(normalized) ==
  LET hits == {e \in Efforts :
                 /\ endsWith(normalized, e)
                 /\ Len(normalized) > Len(e)
                 /\ IsPresetSep(CharAt(normalized, Len(normalized) - Len(e)))}
  IN IF hits = {} THEN [matched |-> FALSE, base |-> "", effort |-> ""]
     ELSE LET e == CHOOSE x \in hits : TRUE
              j == Len(normalized) - Len(e)
          IN [matched |-> TRUE,
              base |-> Slice(normalized, SepRunStart(normalized, j)),
              effort |-> e]

\* /^(codex53|gpt53codex|codex)(minimal|low|medium|high|xhigh)$/
CompactMatch(compact) ==
  LET hits == {pe \in {"codex53", "gpt53codex", "codex"} \X Efforts :
                 compact = pe[1] \o pe[2]}
  IN IF hits = {} THEN [matched |-> FALSE, base |-> "", effort |-> ""]
     ELSE LET pe == CHOOSE x \in hits : TRUE
          IN [matched |-> TRUE, base |-> pe[1], effort |-> pe[2]]

parseCodexPreset(selection) ==
  LET normalized == trim(toLowerCase(selection))
      spacedMatch == SpacedMatch(normalized)
      base == trim(spacedMatch.base)
      compactMatch == CompactMatch(compactToken(selection))
  IN IF spacedMatch.matched /\ parseEffortToken(spacedMatch.effort) = Null
       THEN NoPreset
     ELSE IF spacedMatch.matched /\ isCodex53Alias(base)
       THEN [model |-> "gpt-5.3-codex",
             effort |-> parseEffortToken(spacedMatch.effort)]
     ELSE IF spacedMatch.matched /\ isCodexAlias(base)
       THEN [model |-> CODEX_MODEL,
             effort |-> parseEffortToken(spacedMatch.effort)]
     ELSE IF ~compactMatch.matched THEN NoPreset
     ELSE IF parseEffortToken(compactMatch.effort) = Null THEN NoPreset
     ELSE [model |-> IF compactMatch.base = "codex" THEN CODEX_MODEL
                     ELSE "gpt-5.3-codex",
           effort |-> parseEffortToken(compactMatch.effort)]


(***************************************************************************)
(* More string helpers.                                                    *)
(***************************************************************************)
includes(s, sub) ==
  \E i \in 0..(Len(s) - Len(sub)) : SubSeq(s, i + 1, i + Len(sub)) = sub

RECURSIVE join(_)
join(parts) ==
  IF parts = <<>> THEN "" ELSE Head(parts) \o join(Tail(parts))

(***************************************************************************)
(* Safety policy (consumed by the turn runner as decision functions).     *)
(***************************************************************************)
BLOCKED_PATTERNS == <<"rm -rf /", "rm -rf ~", "rm -rf $HOME", "sudo rm",
                      ":(){ :|:& };:", "> /dev/sd", "mkfs.", "dd if=">>

TEMP_PATHS == {"/tmp/", "/private/tmp/", "/var/folders/"}

ALLOWED_PATHS == {WORKING_DIR}

\* absolute, already normalized paths only
isPathAllowed(path) ==
  \/ \E t \in TEMP_PATHS : startsWith(path, t)
  \/ \E a \in ALLOWED_PATHS : path = a \/ startsWith(path, a \o "/")

stripWrappingQuotes(value) ==
  IF \/ startsWith(value, "\"") /\ endsWith(value, "\"")
     \/ startsWith(value, "'") /\ endsWith(value, "'")
  THEN (IF Len(value) < 2 THEN "" ELSE SubSeq(value, 2, Len(value) - 1))
  ELSE value

\* the character class \w
IsWordChar(c) ==
  includes("abcdefghijklmnopqrstuvwxyz0123456789_", LowerChar(c))

\* /\brm\b/i.test(command)
HasRmWord(command) ==
  \E i \in 1..(Len(command) - 1) :
    /\ toLowerCase(SubSeq(command, i, i + 1)) = "rm"
    /\ i = 1 \/ ~IsWordChar(CharAt(command, i - 1))
    /\ i + 1 = Len(command) \/ ~IsWordChar(CharAt(command, i + 2))

RECURSIVE SplitSegments(_, _, _)
\* command.split(/&&|\|\||;|\|/) read from position i on, the segment being
\* read having begun at position start
SplitSegments(s, i, start) ==
  IF i > Len(s) THEN <<SubSeq(s, start, Len(s))>>
  ELSE IF i < Len(s) /\ SubSeq(s, i, i + 1) \in {"&&", "||"}
    THEN <<SubSeq(s, start, i - 1)>> \o SplitSegments(s, i + 2, i + 2)
  ELSE IF CharAt(s, i) \in {";", "|"}
    THEN <<SubSeq(s, start, i - 1)>> \o SplitSegments(s, i + 1, i + 1)
  ELSE SplitSegments(s, i + 1, start)

\* the first index of a non-empty set of indexes
First(indexes) == CHOOSE k \in indexes : \A m \in indexes : k <= m

\* where the regex match that begins at position i of s ends: at the closing
\* quote of a quoted token, else before the next white space
TokenEnd(s, i) ==
  IF /\ CharAt(s, i) \in {"\"", "'"}
     /\ \E k \in (i + 1)..Len(s) : CharAt(s, k) = CharAt(s, i)
    THEN First({k \in (i + 1)..Len(s) : CharAt(s, k) = CharAt(s, i)})
  ELSE IF \E k \in i..Len(s) : IsSpace(CharAt(s, k))
    THEN First({k \in i..Len(s) : IsSpace(CharAt(s, k))}) - 1
  ELSE Len(s)

RECURSIVE Tokens(_, _)
\* segment.match(/"[^"]*"|'[^']*'|\S+/g) || [], read from position i on
Tokens(s, i) ==
  IF i > Len(s) THEN <<>>
  ELSE IF IsSpace(CharAt(s, i)) THEN Tokens(s, i + 1)
  ELSE <<SubSeq(s, i, TokenEnd(s, i))>> \o Tokens(s, TokenEnd(s, i) + 1)

\* /^(?:\S*\/)?rm$/i.test(t), t being the token without wrapping quotes
IsRmToken(t) ==
  /\ toLowerCase(t) = "rm" \/ endsWith(toLowerCase(t), "/rm")
  /\ \A k \in 1..Len(t) : ~IsSpace(CharAt(t, k))

\* an argument of rm that is neither skipped (empty, a flag) nor allowed
IsOffending(arg) ==
  /\ arg # ""
  /\ ~startsWith(arg, "-")
  /\ ~isPathAllowed(arg)

\* the first token after position rmIndex that is an offending argument, or
\* Null
OffenderAfter(tokens, rmIndex) ==
  IF \E i \in (rmIndex + 1)..Len(tokens) :
       IsOffending(stripWrappingQuotes(tokens[i]))
  THEN tokens[First({i \in (rmIndex + 1)..Len(tokens) :
                      IsOffending(stripWrappingQuotes(tokens[i]))})]
  ELSE Null

\* the raw argument of the first rm among the tokens of a segment that names
\* a path outside the allowed ones, or Null
RmOffender(tokens) ==
  IF \E i \in 1..Len(tokens) : IsRmToken(stripWrappingQuotes(tokens[i]))
  THEN OffenderAfter(tokens,
         First({i \in 1..Len(tokens) :
                  IsRmToken(stripWrappingQuotes(tokens[i]))}))
  ELSE Null

\* the offender of the first segment that has one, or Null
FirstRmOffender(segments) ==
  IF \E i \in 1..Len(segments) : RmOffender(Tokens(segments[i], 1)) # Null
  THEN RmOffender(Tokens(segments[
         First({i \in 1..Len(segments) :
                  RmOffender(Tokens(segments[i], 1)) # Null})], 1))
  ELSE Null

\* the first blocked pattern that the lower-cased command contains, or Null
FirstBlockedPattern(lowerCommand) ==
  IF \E i \in 1..Len(BLOCKED_PATTERNS) :
       includes(lowerCommand, toLowerCase(BLOCKED_PATTERNS[i]))
  THEN BLOCKED_PATTERNS[
         First({i \in 1..Len(BLOCKED_PATTERNS) :
                  includes(lowerCommand, toLowerCase(BLOCKED_PATTERNS[i]))})]
  ELSE Null

\* the verdict once the blocked pattern and the rm offender are known
Verdict(pattern, offender) ==
  IF pattern # Null THEN <<FALSE, "Blocked pattern: " \o pattern>>
  ELSE IF offender # Null
    THEN <<FALSE, "rm target outside allowed paths: " \o offender>>
  ELSE <<TRUE, "">>

\* [safe, reason]: the first blocked pattern contained in the command, else
\* the first rm argument outside the allowed paths
checkCommandSafety(command) ==
  Verdict(FirstBlockedPattern(toLowerCase(command)),
          IF HasRmWord(command)
          THEN FirstRmOffender(SplitSegments(command, 1, 1))
          ELSE Null)

formatToolStatus(toolName, arg) == toolName \o ": " \o arg

(***************************************************************************)
(* Inputs of the environment.                                              *)
(***************************************************************************)
Chars == {"a", "b"}

RECURSIVE Alt(_, _)
\* the text of length n that starts with c and alternates over Chars
Alt(c, n) ==
  IF n = 0 THEN ""
  ELSE c \o Alt(CHOOSE d \in Chars : d # c, n - 1)

\* text blocks a backend may deliver (block.text / item.text)
TextBlocks == {Alt(c, n) : c \in Chars, n \in 0..MaxBlockLen}

ClaudeIds == {"c1", "c2"}
CodexIds == {"x1", "x2"}

\* tool_use blocks of the Claude stream: [name, arg] where arg is the Bash
\* command, the file_path, or "" for the ask-user tool
ClaudeTools == {<<"Bash", "ls">>, <<"Bash", "sudo rm x">>,
                <<"Bash", "rm /etc/abort">>,
                <<"Read", "/work/a">>, <<"Write", "/etc/x">>,
                <<"Read", "/etc/x">>, <<"Read", "/var/folders/x">>,
                <<"Read", "/u/.claude/k">>, <<"Write", "/u/.claude/k">>,
                <<"Write", "/tmp/x">>, <<"Edit", "/u/.claude/k">>,
                <<"Edit", "/work/a">>, <<"Edit", "">>,
                <<"mcp__ask-user__ask", "">>}

CodexCommands == {"rm -f /work/a", "sudo rm x", "rm /etc/abort"}

RECURSIVE Repeat(_, _)
Repeat(s, n) == IF n = 0 THEN "" ELSE s \o Repeat(s, n - 1)

\* a backend failure whose message is longer than the 100 characters kept in
\* lastError
BackendFailure == "backend exploded" \o Repeat(" at frame", 10)

\* messages of exceptions raised by a backend stream
StreamErrors == {"Request was aborted", BackendFailure}

\* the shell commands of the model, and checkCommandSafety over them
\* (evaluated once)
Commands ==
  CodexCommands \cup {tool[2] : tool \in {t \in ClaudeTools : t[1] = "Bash"}}

Safety == [command \in Commands |-> checkCommandSafety(command)]

Selections == {"", "  ", "opus 4.6", "Sonnet-4.5", "claude", "codex",
               "codex 5.3 high", "codex_high", "claude-3-haiku", " GPT-5 "}

(***************************************************************************)
(* State.                                                                  *)
(***************************************************************************)
VARIABLES
  \* ClaudeSession fields
  sessionId, lastActivity, queryStarted, currentTool, lastTool, lastError,
  lastErrorTime, lastUsage, conversationTitle,
  assistantMode, claudeModel, claudeEffort, codexModel, codexEffort,
  abortController, isQueryRunning, stopRequested, isProcessing,
  wasInterruptedByNewMessage,
  \* SESSION_FILE: the saved session history, most recent first
  history,
  \* the turn in flight: position and locals of sendMessageStreaming[Codex]
  pc, turnKind, isNewSession, threadId, aborted, pendingError,
  responseParts, currentSegmentId, currentSegmentText, lastTextUpdate,
  textCallbackCount, lastEmittedTextLength, queryCompleted, askUserTriggered,
  \* what the turn handed to its caller
  events, outcome, retval,
  \* environment: clock, inputs consumed by the turn, budgets
  now, inputLog, stepsLeft, turnsLeft, opsLeft, stopsLeft,
  \* configuration read at start-up (config.ts)
  minChars, stepChars, throttle,
  \* the session command executed by the last step, if it was one: its
  \* name, its result and the session as it was when the command was called
  cmdResult

identVars == <<assistantMode, claudeModel, claudeEffort, codexModel,
               codexEffort>>
obsVars == <<sessionId, lastActivity, queryStarted, currentTool, lastTool,
             lastError, lastErrorTime, lastUsage, conversationTitle>>
ctlVars == <<abortController, isQueryRunning, stopRequested, isProcessing,
             wasInterruptedByNewMessage>>
localVars == <<turnKind, isNewSession, threadId, aborted, pendingError,
               responseParts, currentSegmentId, currentSegmentText,
               lastTextUpdate, textCallbackCount, lastEmittedTextLength,
               queryCompleted, askUserTriggered>>
outVars == <<events, outcome, retval>>
envVars == <<now, inputLog, stepsLeft, turnsLeft, opsLeft, stopsLeft>>
cfgVars == <<minChars, stepChars, throttle>>

vars == <<identVars, obsVars, ctlVars, history, pc, localVars, outVars,
          envVars, cfgVars, cmdResult>>

\* the fields of the session object
Snapshot ==
  [sessionId |-> sessionId, lastActivity |-> lastActivity,
   queryStarted |-> queryStarted, currentTool |-> currentTool,
   lastTool |-> lastTool, lastError |-> lastError,
   lastErrorTime |-> lastErrorTime, lastUsage |-> lastUsage,
   conversationTitle |-> conversationTitle,
   assistantMode |-> assistantMode, claudeModel |-> claudeModel,
   claudeEffort |-> claudeEffort, codexModel |-> codexModel,
   codexEffort |-> codexEffort, abortController |-> abortController,
   isQueryRunning |-> isQueryRunning, stopRequested |-> stopRequested,
   isProcessing |-> isProcessing,
   wasInterruptedByNewMessage |-> wasInterruptedByNewMessage]

NoCommand ==
  [op |-> "none", arg |-> "", ok |-> FALSE, message |-> "", before |-> Null]

Result(op, arg, ok, message) ==
  [op |-> op, arg |-> arg, ok |-> ok, message |-> message,
   before |-> Snapshot]

InitSession ==
  /\ sessionId = Null /\ lastActivity = Null /\ queryStarted = Null
  /\ currentTool = Null /\ lastTool = Null /\ lastError = Null
  /\ lastErrorTime = Null /\ lastUsage = Null /\ conversationTitle = Null
  /\ assistantMode \in {"claude", "codex"}
  /\ claudeModel = CLAUDE_MODEL /\ claudeEffort = CLAUDE_REASONING_EFFORT
  /\ codexModel = CODEX_MODEL /\ codexEffort = CODEX_REASONING_EFFORT
  /\ abortController = Null /\ isQueryRunning = FALSE
  /\ stopRequested = FALSE /\ isProcessing = FALSE
  /\ wasInterruptedByNewMessage = FALSE

InitTurn ==
  /\ pc = "idle" /\ turnKind = Null /\ isNewSession = FALSE
  /\ threadId = Null /\ aborted = FALSE /\ pendingError = Null
  /\ responseParts = <<>> /\ currentSegmentId = 0
  /\ currentSegmentText = "" /\ lastTextUpdate = 0
  /\ textCallbackCount = 0 /\ lastEmittedTextLength = 0
  /\ queryCompleted = FALSE /\ askUserTriggered = FALSE
  /\ events = <<>> /\ outcome = "none" /\ retval = Null
  /\ now = 0 /\ inputLog = <<>>
  /\ cmdResult = NoCommand

\* Start-up for the session commands: one configuration, few backend events.
Init ==
  /\ InitSession /\ InitTurn
  /\ history = <<>>
  /\ minChars = MaxMinChars
  /\ stepChars = MaxStepChars
  /\ throttle = MaxThrottle
  /\ stepsLeft = MaxCmdSteps
  /\ turnsLeft = MaxTurns
  /\ stopsLeft = MaxStops
  /\ opsLeft = MaxOps

\* Start-up for the turn runner: the configuration is drawn from the
\* admissible settings and no session command is issued.
TurnInit ==
  /\ InitSession /\ InitTurn
  /\ history = <<>>
  /\ minChars \in 1..MaxMinChars
  /\ stepChars \in 0..MaxStepChars
  /\ throttle \in 0..MaxThrottle
  /\ stepsLeft = MaxSteps
  /\ turnsLeft = MaxTurns
  /\ stopsLeft = MaxStops
  /\ opsLeft = 0

(***************************************************************************)
(* Session commands.                                                       *)
(***************************************************************************)
model == IF assistantMode = "codex" THEN codexModel ELSE claudeModel

\* variant of ParseSelection that lower-cases the selection it keeps
ParseSelection_Lowered(selectionRaw) ==
  LET selection == toLowerCase(trim(selectionRaw))
  IN [selection |-> selection,
      normalized |-> selection,
      codexPreset |-> parseCodexPreset(selection),
      claudeAlias |-> parseClaudeAlias(selection)]

\* what setModel computes from its argument before it touches the session
ParseSelection(selectionRaw) ==
  LET selection == trim(selectionRaw)
  IN [selection |-> selection,
      normalized |-> toLowerCase(selection),
      codexPreset |-> parseCodexPreset(selection),
      claudeAlias |-> parseClaudeAlias(selection)]

\* ParseSelection over the selections of the model (evaluated once)
Parsed == [selectionRaw \in Selections |-> ParseSelection(selectionRaw)]

\* the identity setModel selects: [ok, assistant, claude, codex, effort];
\* ok = FALSE is the "Claude models: ..." rejection
Selected(p) ==
  LET keep == [ok |-> TRUE, assistant |-> assistantMode,
               claude |-> claudeModel, codex |-> codexModel,
               effort |-> codexEffort]
  IN IF p.codexPreset # NoPreset
       THEN [keep EXCEPT !.assistant = "codex",
                         !.codex = p.codexPreset.model,
                         !.effort = p.codexPreset.effort]
     ELSE IF p.claudeAlias # Null
       THEN [keep EXCEPT !.assistant = "claude", !.claude = p.claudeAlias]
     ELSE IF p.normalized = "claude"
       THEN [keep EXCEPT !.assistant = "claude", !.claude = CLAUDE_MODEL]
     ELSE IF p.normalized = "codex"
       THEN [keep EXCEPT !.assistant = "codex", !.codex = CODEX_MODEL,
                         !.effort = CODEX_REASONING_EFFORT]
     ELSE IF startsWith(p.normalized, "claude")
       THEN [keep EXCEPT !.ok = FALSE]
     ELSE [keep EXCEPT !.assistant = "codex", !.codex = p.selection]

\* `if (!selection) return [false, "Usage: ..."]`
UsageFailure(selectionRaw) ==
  /\ cmdResult' = Result("setModel", selectionRaw, FALSE, "Usage: /model")
  /\ UNCHANGED <<identVars, obsVars>>

\* `normalized.startsWith("claude")`: not a known Claude model
ClaudeModelsFailure(selectionRaw) ==
  /\ cmdResult' = Result("setModel", selectionRaw, FALSE, "Claude models")
  /\ UNCHANGED <<identVars, obsVars>>

\* variant of ModelUnchanged that clears the session id all the same
ModelUnchanged_Resets(selectionRaw) ==
  /\ cmdResult' = Result("setModel", selectionRaw, TRUE, "Model unchanged")
  /\ sessionId' = Null
  /\ UNCHANGED <<lastActivity, queryStarted, currentTool, lastTool, lastError,
                 lastErrorTime, lastUsage, conversationTitle>>

\* `if (!changed) return [true, "Model unchanged: ..."]`
ModelUnchanged(selectionRaw) ==
  /\ cmdResult' = Result("setModel", selectionRaw, TRUE, "Model unchanged")
  /\ UNCHANGED obsVars

\* variant of ResetOnSwitch that keeps the session id
ResetOnSwitch_KeepsId(selectionRaw) ==
  /\ lastActivity' = Null /\ queryStarted' = Null
  /\ currentTool' = Null /\ lastTool' = Null /\ lastUsage' = Null
  /\ lastError' = Null /\ lastErrorTime' = Null
  /\ UNCHANGED <<sessionId, conversationTitle>>
  /\ cmdResult' = Result("setModel", selectionRaw, TRUE, "Model switched")

\* "Reset active session so we don't attempt to resume with the wrong
\* backend", then the "Model switched" result
ResetOnSwitch(selectionRaw) ==
  /\ sessionId' = Null /\ lastActivity' = Null /\ queryStarted' = Null
  /\ currentTool' = Null /\ lastTool' = Null /\ lastUsage' = Null
  /\ lastError' = Null /\ lastErrorTime' = Null
  /\ UNCHANGED conversationTitle
  /\ cmdResult' = Result("setModel", selectionRaw, TRUE, "Model switched")

setModel(selectionRaw) ==
  LET selection == Parsed[selectionRaw].selection
      sel == Selected(Parsed[selectionRaw])
      newModel == IF sel.assistant = "codex" THEN sel.codex ELSE sel.claude
      changed == \/ assistantMode # sel.assistant
                 \/ model # newModel
                 \/ codexEffort # sel.effort
  IN IF selection = "" THEN UsageFailure(selectionRaw)
     ELSE IF ~sel.ok THEN ClaudeModelsFailure(selectionRaw)
     ELSE /\ assistantMode' = sel.assistant
          /\ claudeModel' = sel.claude
          /\ codexModel' = sel.codex
          /\ codexEffort' = sel.effort
          /\ UNCHANGED claudeEffort
          /\ IF ~changed THEN ModelUnchanged(selectionRaw)
             ELSE ResetOnSwitch(selectionRaw)

SetModel ==
  /\ opsLeft > 0
  /\ \E selectionRaw \in Selections : setModel(selectionRaw)
  /\ opsLeft' = opsLeft - 1
  /\ UNCHANGED <<ctlVars, history, pc, localVars, outVars, cfgVars,
                 now, inputLog, stepsLeft, turnsLeft, stopsLeft>>

kill ==
  /\ sessionId' = Null /\ lastActivity' = Null /\ conversationTitle' = Null
  /\ UNCHANGED <<queryStarted, currentTool, lastTool, lastError,
                 lastErrorTime, lastUsage>>

Kill ==
  /\ opsLeft > 0
  /\ kill
  /\ cmdResult' = Result("kill", "", TRUE, "")
  /\ opsLeft' = opsLeft - 1
  /\ UNCHANGED <<identVars, ctlVars, history, pc, localVars, outVars,
                 cfgVars, now, inputLog, stepsLeft, turnsLeft, stopsLeft>>

\* handleNew, the /new command. With a query running it calls stop(), waits
\* 100 ms, and then runs clearStopRequested() and kill() with no suspension
\* point between them: this action is that second half, taken while the stop
\* request of the first half (the stop action) is still set. With nothing
\* running the handler is kill() alone.
handleNew ==
  /\ opsLeft > 0
  /\ opsLeft' = opsLeft - 1
  /\ \/ /\ stopRequested
        /\ stopRequested' = FALSE
     \/ /\ ~isQueryRunning /\ ~isProcessing
        /\ UNCHANGED stopRequested
  /\ kill
  /\ cmdResult' = Result("handleNew", "", TRUE, "")
  /\ UNCHANGED <<identVars, abortController, isQueryRunning, isProcessing,
                 wasInterruptedByNewMessage, history, pc, localVars,
                 outVars, cfgVars, now, inputLog, stepsLeft, turnsLeft,
                 stopsLeft>>

(***************************************************************************)
(* Persistence of the session history.                                     *)
(***************************************************************************)
\* variant of SavedEntry that records the Claude model whatever the assistant
SavedEntry_ClaudeModel(id) ==
  [session_id |-> id,
   working_dir |-> WORKING_DIR,
   title |-> IF conversationTitle # Null THEN conversationTitle
             ELSE "Sessione senza titolo",
   assistant |-> assistantMode,
   model |-> claudeModel,
   codex_reasoning_effort |-> IF assistantMode = "codex" THEN codexEffort
                              ELSE Null]

SavedEntry(id) ==
  [session_id |-> id,
   working_dir |-> WORKING_DIR,
   title |-> IF conversationTitle # Null THEN conversationTitle
             ELSE "Sessione senza titolo",
   assistant |-> assistantMode,
   model |-> model,
   codex_reasoning_effort |-> IF assistantMode = "codex" THEN codexEffort
                              ELSE Null]

\* variant of saveSession that always adds the entry in front
saveSession_Unshift(id) ==
  IF id = Null THEN history
  ELSE LET merged == <<SavedEntry(id)>> \o history
       IN SubSeq(merged, 1, Min(Len(merged), MAX_SESSIONS))

\* variant of saveSession that moves an entry it updates to the front
saveSession_MoveToFront(id) ==
  IF id = Null THEN history
  ELSE LET others == SelectSeq(history, LAMBDA e : e.session_id # id)
           merged == <<SavedEntry(id)>> \o others
       IN SubSeq(merged, 1, Min(Len(merged), MAX_SESSIONS))

\* the history saveSession writes when this.sessionId is id
saveSession(id) ==
  IF id = Null THEN history
  ELSE LET hits == {i \in 1..Len(history) : history[i].session_id = id}
           merged ==
             IF hits # {}
             THEN [history EXCEPT
                     ![CHOOSE i \in hits : \A k \in hits : i <= k] =
                        SavedEntry(id)]
             ELSE <<SavedEntry(id)>> \o history
       IN SubSeq(merged, 1, Min(Len(merged), MAX_SESSIONS))

\* ids a resume command may name: the saved ones and one that is not saved
ResumeIds == {history[i].session_id : i \in 1..Len(history)} \cup {"zz"}

\* variant of resumeWith that reports a session of another directory as one
\* that was not found
resumeWith_SameError(call, id) ==
  LET hits == {i \in 1..Len(history) :
                 /\ history[i].session_id = id
                 /\ history[i].working_dir \in {Null, WORKING_DIR}}
      sessionData == history[CHOOSE i \in hits : \A k \in hits : i <= k]
      newAssistant == IF sessionData.assistant # Null
                      THEN sessionData.assistant ELSE assistantMode
  IN IF hits = {}
       THEN /\ cmdResult' = Result(call, id,
                                   FALSE, "Sessione non trovata")
            /\ UNCHANGED <<identVars, obsVars>>
     ELSE /\ sessionId' = sessionData.session_id
          /\ conversationTitle' = sessionData.title
          /\ lastActivity' = Date
          /\ assistantMode' = newAssistant
          /\ codexModel' = IF sessionData.model # Null /\ newAssistant = "codex"
                           THEN sessionData.model ELSE codexModel
          /\ codexEffort' = IF /\ sessionData.model # Null
                               /\ newAssistant = "codex"
                               /\ sessionData.codex_reasoning_effort # Null
                            THEN sessionData.codex_reasoning_effort
                            ELSE codexEffort
          /\ claudeModel' = IF sessionData.model # Null /\ newAssistant # "codex"
                            THEN sessionData.model ELSE claudeModel
          /\ cmdResult' = Result(call, id, TRUE,
                                   "Ripresa sessione")
          /\ UNCHANGED <<claudeEffort, queryStarted, currentTool, lastTool,
                         lastError, lastErrorTime, lastUsage>>

\* resumeSession(id); its result is recorded as the result of `call`
resumeWith(call, id) ==
  LET hits == {i \in 1..Len(history) : history[i].session_id = id}
      sessionData == history[CHOOSE i \in hits : \A k \in hits : i <= k]
      newAssistant == IF sessionData.assistant # Null
                      THEN sessionData.assistant ELSE assistantMode
  IN IF hits = {}
       THEN /\ cmdResult' = Result(call, id,
                                   FALSE, "Sessione non trovata")
            /\ UNCHANGED <<identVars, obsVars>>
     ELSE IF sessionData.working_dir # Null
             /\ sessionData.working_dir # WORKING_DIR
       THEN /\ cmdResult' = Result(call, id, FALSE,
                                   "Sessione per directory diversa")
            /\ UNCHANGED <<identVars, obsVars>>
     ELSE /\ sessionId' = sessionData.session_id
          /\ conversationTitle' = sessionData.title
          /\ lastActivity' = Date
          /\ assistantMode' = newAssistant
          /\ codexModel' = IF sessionData.model # Null /\ newAssistant = "codex"
                           THEN sessionData.model ELSE codexModel
          /\ codexEffort' = IF /\ sessionData.model # Null
                               /\ newAssistant = "codex"
                               /\ sessionData.codex_reasoning_effort # Null
                            THEN sessionData.codex_reasoning_effort
                            ELSE codexEffort
          /\ claudeModel' = IF sessionData.model # Null /\ newAssistant # "codex"
                            THEN sessionData.model ELSE claudeModel
          /\ cmdResult' = Result(call, id, TRUE,
                                   "Ripresa sessione")
          /\ UNCHANGED <<claudeEffort, queryStarted, currentTool, lastTool,
                         lastError, lastErrorTime, lastUsage>>

resumeSession(id) == resumeWith("resumeSession", id)

\* variant of getSessionList that returns every saved session
getSessionList_All == history

\* the saved sessions of the current working directory
getSessionList ==
  SelectSeq(history, LAMBDA s : s.working_dir = Null
                                \/ s.working_dir = WORKING_DIR)

resumeLast ==
  LET sessions == getSessionList
  IN IF Len(sessions) = 0
       THEN /\ cmdResult' = Result("resumeLast", "", FALSE,
                                   "Nessuna sessione salvata")
            /\ UNCHANGED <<identVars, obsVars>>
     ELSE resumeWith("resumeLast", sessions[1].session_id)

ResumeSession ==
  /\ opsLeft > 0
  /\ \E id \in ResumeIds : resumeSession(id)
  /\ opsLeft' = opsLeft - 1
  /\ UNCHANGED <<ctlVars, history, pc, localVars, outVars, cfgVars,
                 now, inputLog, stepsLeft, turnsLeft, stopsLeft>>

ResumeLast ==
  /\ opsLeft > 0
  /\ resumeLast
  /\ opsLeft' = opsLeft - 1
  /\ UNCHANGED <<ctlVars, history, pc, localVars, outVars, cfgVars,
                 now, inputLog, stepsLeft, turnsLeft, stopsLeft>>

(***************************************************************************)
(* Interrupt / cancellation controller.                                    *)
(***************************************************************************)
\* the handler marks the session as processing before it starts the turn
startProcessing ==
  /\ pc = "idle"
  /\ turnsLeft > 0
  /\ isProcessing' = TRUE
  /\ pc' = "processing"
  /\ turnsLeft' = turnsLeft - 1
  /\ UNCHANGED <<identVars, obsVars, abortController, isQueryRunning,
                 stopRequested, wasInterruptedByNewMessage, history,
                 localVars, outVars, cfgVars, now, inputLog, stepsLeft,
                 opsLeft, stopsLeft>>
  /\ cmdResult' = NoCommand

\* the cleanup closure startProcessing returned, run when the turn is over
stopProcessing ==
  /\ pc = "finished"
  /\ isProcessing' = FALSE
  /\ pc' = "idle"
  /\ UNCHANGED <<identVars, obsVars, abortController, isQueryRunning,
                 stopRequested, wasInterruptedByNewMessage, history,
                 localVars, outVars, envVars, cfgVars>>
  /\ cmdResult' = NoCommand

\* variant of stop that looks at the processing flag first
stop_ProcessingFirst ==
  /\ stopsLeft > 0
  /\ stopsLeft' = stopsLeft - 1
  /\ IF isProcessing
       THEN /\ stopRequested' = TRUE
            /\ cmdResult' = Result("stop", "", TRUE, "pending")
            /\ UNCHANGED aborted
     ELSE IF isQueryRunning /\ abortController # Null
       THEN /\ stopRequested' = TRUE
            /\ aborted' = TRUE
            /\ cmdResult' = Result("stop", "", TRUE, "stopped")
     ELSE IF isQueryRunning
       THEN /\ stopRequested' = TRUE
            /\ cmdResult' = Result("stop", "", TRUE, "stopped")
            /\ UNCHANGED aborted
     ELSE /\ cmdResult' = Result("stop", "", FALSE, "false")
          /\ UNCHANGED <<stopRequested, aborted>>
  /\ UNCHANGED <<identVars, obsVars, abortController, isQueryRunning,
                 isProcessing, wasInterruptedByNewMessage, history, pc,
                 turnKind, isNewSession, threadId, pendingError,
                 responseParts, currentSegmentId, currentSegmentText,
                 lastTextUpdate, textCallbackCount, lastEmittedTextLength,
                 queryCompleted, askUserTriggered, outVars, cfgVars,
                 now, inputLog, stepsLeft, turnsLeft, opsLeft>>

\* stop()
stop ==
  /\ stopsLeft > 0
  /\ stopsLeft' = stopsLeft - 1
  /\ IF isQueryRunning /\ abortController # Null
       THEN /\ stopRequested' = TRUE
            /\ aborted' = TRUE
            /\ cmdResult' = Result("stop", "", TRUE, "stopped")
     ELSE IF isQueryRunning
       THEN /\ stopRequested' = TRUE
            /\ cmdResult' = Result("stop", "", TRUE, "stopped")
            /\ UNCHANGED aborted
     ELSE IF isProcessing
       THEN /\ stopRequested' = TRUE
            /\ cmdResult' = Result("stop", "", TRUE, "pending")
            /\ UNCHANGED aborted
     ELSE /\ cmdResult' = Result("stop", "", FALSE, "false")
          /\ UNCHANGED <<stopRequested, aborted>>
  /\ UNCHANGED <<identVars, obsVars, abortController, isQueryRunning,
                 isProcessing, wasInterruptedByNewMessage, history, pc,
                 turnKind, isNewSession, threadId, pendingError,
                 responseParts, currentSegmentId, currentSegmentText,
                 lastTextUpdate, textCallbackCount, lastEmittedTextLength,
                 queryCompleted, askUserTriggered, outVars, cfgVars,
                 now, inputLog, stepsLeft, turnsLeft, opsLeft>>

\* clearStopRequested(), which the /stop, /new and /model handlers call 100 ms
\* after a stop() that returned "stopped" or "pending"; a call that finds the
\* flag clear changes nothing
clearStopRequested ==
  /\ stopRequested
  /\ stopRequested' = FALSE
  /\ UNCHANGED <<identVars, obsVars, abortController, isQueryRunning,
                 isProcessing, wasInterruptedByNewMessage, history, pc,
                 localVars, outVars, envVars, cfgVars>>
  /\ cmdResult' = Result("clearStopRequested", "", TRUE, "")

\* markInterrupt(): the message handler saw a "!" message that interrupts
\* the running query
markInterrupt ==
  /\ opsLeft > 0
  /\ opsLeft' = opsLeft - 1
  /\ wasInterruptedByNewMessage' = TRUE
  /\ cmdResult' = Result("markInterrupt", "", TRUE, "")
  /\ UNCHANGED <<identVars, obsVars, abortController, isQueryRunning,
                 stopRequested, isProcessing, history, pc, localVars,
                 outVars, cfgVars, now, inputLog, stepsLeft, turnsLeft,
                 stopsLeft>>

\* variant of consumeInterruptFlag that clears the stop request whatever the
\* flag was
consumeInterruptFlag_AlwaysClears ==
  /\ opsLeft > 0
  /\ opsLeft' = opsLeft - 1
  /\ wasInterruptedByNewMessage' = FALSE
  /\ stopRequested' = FALSE
  /\ cmdResult' = Result("consumeInterruptFlag", "",
                         wasInterruptedByNewMessage, "")
  /\ UNCHANGED <<identVars, obsVars, abortController, isQueryRunning,
                 isProcessing, history, pc, localVars, outVars, cfgVars,
                 now, inputLog, stepsLeft, turnsLeft, stopsLeft>>

\* consumeInterruptFlag(); the value returned is the ok field of the result
consumeInterruptFlag ==
  /\ opsLeft > 0
  /\ opsLeft' = opsLeft - 1
  /\ wasInterruptedByNewMessage' = FALSE
  /\ stopRequested' = IF wasInterruptedByNewMessage THEN FALSE
                      ELSE stopRequested
  /\ cmdResult' = Result("consumeInterruptFlag", "",
                         wasInterruptedByNewMessage, "")
  /\ UNCHANGED <<identVars, obsVars, abortController, isQueryRunning,
                 isProcessing, history, pc, localVars, outVars, cfgVars,
                 now, inputLog, stepsLeft, turnsLeft, stopsLeft>>

(***************************************************************************)
(* Turn runner: pieces shared by the Claude and the Codex path.           *)
(***************************************************************************)
Ev(type, content, seg) == [type |-> type, content |-> content, seg |-> seg]

NoSeg == -1

WAITING == "[Waiting for user selection]"

\* String(error) of an Error object
ErrorString(msg) == "Error: " \o msg

\* s.toLowerCase().includes(sub) for a lower-case sub
lowerIncludes(s, sub) ==
  \E i \in 0..(Len(s) - Len(sub)) :
    toLowerCase(SubSeq(s, i + 1, i + Len(sub))) = sub

isCleanupError(msg) ==
  LET error == ErrorString(msg)
  IN lowerIncludes(error, "cancel") \/ lowerIncludes(error, "abort")

\* the messages of the errors a turn of the model may catch, and
\* isCleanupError over them (evaluated once)
ErrorMessages ==
  StreamErrors \cup {"Unknown Codex stream error", "Codex turn failed"}
  \cup {"Unsafe command blocked: " \o Safety[command][2] :
          command \in Commands}
  \cup {"File access blocked: " \o tool[2] : tool \in ClaudeTools}

Cleanup == [msg \in ErrorMessages |-> isCleanupError(msg)]

\* variant of Finally that leaves the label of the current tool
Finally_KeepsTool ==
  /\ isQueryRunning' = FALSE
  /\ abortController' = Null
  /\ queryStarted' = Null
  /\ UNCHANGED currentTool

\* the `finally` block of both turn functions
Finally ==
  /\ isQueryRunning' = FALSE
  /\ abortController' = Null
  /\ queryStarted' = Null
  /\ currentTool' = Null

\* the loop was left without a (surviving) exception: finally, then the
\* statements up to the first callback
ExitNormal ==
  /\ Finally
  /\ lastActivity' = Date
  /\ lastError' = Null
  /\ lastErrorTime' = Null
  /\ pc' = "flush"
  /\ UNCHANGED <<outcome, pendingError>>

\* variant of ExitThrow that records the whole error text
ExitThrow_Untruncated(msg) ==
  /\ lastError' = ErrorString(msg)
  /\ lastErrorTime' = Date
  /\ Finally
  /\ outcome' = "thrown"
  /\ pendingError' = msg
  /\ pc' = "finished"
  /\ UNCHANGED lastActivity

\* the catch block rethrows: lastError is recorded, finally runs, the caller
\* sees the exception
ExitThrow(msg) ==
  /\ lastError' = Slice(ErrorString(msg), 100)
  /\ lastErrorTime' = Date
  /\ Finally
  /\ outcome' = "thrown"
  /\ pendingError' = msg
  /\ pc' = "finished"
  /\ UNCHANGED lastActivity

\* the turn stays inside its try block
Continue(nextPc, tool) ==
  /\ pc' = nextPc
  /\ currentTool' = tool
  /\ UNCHANGED <<isQueryRunning, abortController, queryStarted, lastActivity,
                 lastError, lastErrorTime, outcome, pendingError>>

\* catch block of sendMessageStreaming
ClaudeCatch(msg) ==
  IF Cleanup[msg] /\ (queryCompleted \/ askUserTriggered \/ stopRequested)
  THEN ExitNormal
  ELSE ExitThrow(msg)

\* variant of CodexCatch that swallows a cleanup error whether or not a stop
\* was requested
CodexCatch_AnyCleanup(msg) ==
  IF Cleanup[msg]
  THEN ExitNormal
  ELSE ExitThrow(msg)

\* catch block of sendMessageStreamingCodex
CodexCatch(msg) ==
  IF Cleanup[msg] /\ stopRequested
  THEN ExitNormal
  ELSE ExitThrow(msg)

\* variant of CloseSegment that opens a new segment even when the open one
\* holds no text
CloseSegment_AlwaysNewId ==
  IF currentSegmentText # ""
  THEN [emit |-> <<Ev("segment_end", currentSegmentText, currentSegmentId)>>,
        id |-> currentSegmentId + 1]
  ELSE [emit |-> <<>>, id |-> currentSegmentId + 1]

\* variant of CloseSegment that closes the segment and keeps its id
CloseSegment_SameId ==
  IF currentSegmentText # ""
  THEN [emit |-> <<Ev("segment_end", currentSegmentText, currentSegmentId)>>,
        id |-> currentSegmentId]
  ELSE [emit |-> <<>>, id |-> currentSegmentId]

\* "Segment ends when tool starts": the events emitted and the new segment
CloseSegment ==
  IF currentSegmentText # ""
  THEN [emit |-> <<Ev("segment_end", currentSegmentText, currentSegmentId)>>,
        id |-> currentSegmentId + 1]
  ELSE [emit |-> <<>>, id |-> currentSegmentId]

\* a text block is appended to the open segment and possibly shown
TextUpdate(text) ==
  LET segText == currentSegmentText \o text
      firstPreviewLen == Max(1, Min(stepChars, Len(segText) - 1))
      shouldEmitText ==
        textCallbackCount = 0 \/ now - lastTextUpdate >= throttle
  IN /\ responseParts' = Append(responseParts, text)
     /\ currentSegmentText' = segText
     /\ IF textCallbackCount = 0 /\ Len(segText) >= minChars
          THEN /\ events' = Append(events,
                      Ev("text", Slice(segText, firstPreviewLen),
                         currentSegmentId))
               /\ textCallbackCount' = textCallbackCount + 1
               /\ lastEmittedTextLength' = firstPreviewLen
               /\ lastTextUpdate' = now
        ELSE IF shouldEmitText
          THEN /\ events' = Append(events,
                      Ev("text", segText, currentSegmentId))
               /\ lastTextUpdate' = now
               /\ textCallbackCount' = textCallbackCount + 1
               /\ lastEmittedTextLength' = Len(segText)
        ELSE UNCHANGED <<events, textCallbackCount, lastEmittedTextLength,
                         lastTextUpdate>>

RECURSIVE TailEnds(_, _, _)
\* the values of `end` the tail loop runs through
TailEnds(end, len, step) ==
  IF end >= len THEN <<>>
  ELSE <<end>> \o TailEnds(end + step, len, step)

\* variant of emitProgressiveTail that starts at the first step whatever
\* was emitted before
emitProgressiveTail_FromFirstStep(fullText) ==
  IF Len(fullText) < minChars \/ stepChars <= 0 THEN <<>>
  ELSE TailEnds(stepChars, Len(fullText), stepChars)

\* the slice ends emitProgressiveTail emits for fullText
emitProgressiveTail(fullText) ==
  IF Len(fullText) < minChars \/ stepChars <= 0 THEN <<>>
  ELSE TailEnds(Max(lastEmittedTextLength + stepChars, stepChars),
                Len(fullText), stepChars)

\* variant of FinalSegment that leaves the open segment unclosed
FinalSegment_None == <<>>

\* variant of FinalSegment whose segment_end carries the last slice shown
FinalSegment_LastStep ==
  IF currentSegmentText # ""
  THEN LET ends == emitProgressiveTail(currentSegmentText)
           shown == IF ends = <<>> THEN lastEmittedTextLength
                    ELSE ends[Len(ends)]
       IN [i \in 1..Len(ends) |->
             Ev("text", Slice(currentSegmentText, ends[i]), currentSegmentId)]
          \o <<Ev("segment_end", Slice(currentSegmentText, shown),
                  currentSegmentId)>>
  ELSE <<>>

\* "Emit final segment": the synthetic tail, then segment_end
FinalSegment ==
  IF currentSegmentText # ""
  THEN LET ends == emitProgressiveTail(currentSegmentText)
       IN [i \in 1..Len(ends) |->
             Ev("text", Slice(currentSegmentText, ends[i]), currentSegmentId)]
          \o <<Ev("segment_end", currentSegmentText, currentSegmentId)>>
  ELSE <<>>

\* variant of FlushEvents that ends an ask-user wait without `done`
FlushEvents_NoDoneOnWait ==
  IF turnKind = "claude" /\ askUserTriggered
  THEN <<>>
  ELSE FinalSegment \o <<Ev("done", "", NoSeg)>>

\* the events a turn emits after its finally block
FlushEvents ==
  IF turnKind = "claude" /\ askUserTriggered
  THEN <<Ev("done", "", NoSeg)>>
  ELSE FinalSegment \o <<Ev("done", "", NoSeg)>>

\* variant of FinalText that returns the text of the last segment only
FinalText_LastSegment ==
  IF turnKind = "claude" /\ askUserTriggered THEN WAITING
  ELSE IF currentSegmentText # "" THEN currentSegmentText
  ELSE IF turnKind = "claude" THEN "No response from Claude."
  ELSE "No response from Codex."

\* the value a turn returns
FinalText ==
  IF turnKind = "claude" /\ askUserTriggered THEN WAITING
  ELSE IF join(responseParts) # "" THEN join(responseParts)
  ELSE IF turnKind = "claude" THEN "No response from Claude."
  ELSE "No response from Codex."

\* the part of a turn function after the finally block
Flush ==
  /\ pc = "flush"
  /\ LET ends == IF currentSegmentText # ""
                    /\ ~(turnKind = "claude" /\ askUserTriggered)
                 THEN emitProgressiveTail(currentSegmentText) ELSE <<>>
     IN /\ textCallbackCount' = textCallbackCount + Len(ends)
        /\ lastEmittedTextLength' =
             IF ends = <<>> THEN lastEmittedTextLength ELSE ends[Len(ends)]
  /\ events' = events \o FlushEvents
  /\ retval' = FinalText
  /\ outcome' = "returned"
  /\ pc' = "finished"
  /\ UNCHANGED <<identVars, obsVars, ctlVars, history, turnKind,
                 isNewSession, threadId, aborted, pendingError,
                 responseParts, currentSegmentId, currentSegmentText,
                 lastTextUpdate, queryCompleted, askUserTriggered,
                 envVars, cfgVars>>
  /\ cmdResult' = NoCommand

\* Date.now() advances while a turn is waiting for its backend.  The clock
\* is read only to throttle updates after the first one, so it is left at
\* rest until a text update has been emitted.
Tick ==
  /\ pc \in {"loop", "blocks"}
  /\ textCallbackCount > 0
  /\ now < MaxClock
  /\ now' = now + 1
  /\ UNCHANGED <<identVars, obsVars, ctlVars, history, pc, localVars,
                 outVars, cfgVars, inputLog, stepsLeft, turnsLeft, opsLeft,
                 stopsLeft>>
  /\ cmdResult' = NoCommand

\* variant of CancelledBeforeStart that ignores a stop requested before the
\* query started
CancelledBeforeStart_Never == FALSE

\* "Check if stop was requested during processing phase"
CancelledBeforeStart == stopRequested

\* variant of OpenThread that keeps the session id when resuming fails
OpenThread_KeepsSessionId(resumeFails) ==
  IF sessionId # Null /\ ~resumeFails
  THEN [id |-> sessionId, sessionId |-> sessionId]
  ELSE [id |-> Null, sessionId |-> sessionId]

\* the Codex thread of a turn: the resumed one (thread.id is the session id)
\* or, for a new session or when resumeThread throws, a fresh one whose id
\* is not known before thread.started; and this.sessionId afterwards
OpenThread(resumeFails) ==
  IF sessionId # Null /\ ~resumeFails
  THEN [id |-> sessionId, sessionId |-> sessionId]
  ELSE [id |-> Null, sessionId |-> Null]

\* the user's message of a turn
Message == "what time is it?"

\* `[Current date/time: ${now.toLocaleDateString(...)}]\n\n`
datePrefix == "[Current date/time: " \o Date \o "]\n\n"

\* the prompt of the turn in flight, as handed to query() / runStreamed()
messageToSend ==
  IF isNewSession THEN datePrefix \o Message ELSE Message

\* sendMessageStreaming up to the event loop (both backends); for Codex this
\* includes opening the thread, where resuming may fail
sendMessageStreaming ==
  /\ pc = "processing"
  /\ turnKind' = assistantMode
  /\ isNewSession' = (sessionId = Null)
  /\ events' = <<>>
  /\ inputLog' = <<>>
  /\ retval' = Null
  /\ responseParts' = <<>> /\ currentSegmentId' = 0
  /\ currentSegmentText' = "" /\ lastTextUpdate' = 0
  /\ textCallbackCount' = 0 /\ lastEmittedTextLength' = 0
  /\ queryCompleted' = FALSE /\ askUserTriggered' = FALSE
  /\ aborted' = FALSE
  /\ stopRequested' = FALSE
  /\ IF CancelledBeforeStart
       THEN /\ outcome' = "thrown"
            /\ pendingError' = "Query cancelled"
            /\ pc' = "finished"
            /\ UNCHANGED <<sessionId, threadId, abortController,
                           isQueryRunning, queryStarted, currentTool>>
       ELSE /\ outcome' = "none"
            /\ pendingError' = Null
            /\ isQueryRunning' = TRUE
            /\ queryStarted' = Date
            /\ currentTool' = Null
            /\ pc' = "loop"
            /\ IF assistantMode = "claude"
                 THEN /\ abortController' = "AbortController"
                      /\ UNCHANGED <<sessionId, threadId>>
                 ELSE /\ abortController' = Null
                      /\ \E resumeFails \in BOOLEAN :
                           /\ threadId' = OpenThread(resumeFails).id
                           /\ sessionId' = OpenThread(resumeFails).sessionId
  /\ UNCHANGED <<identVars, lastActivity, lastTool, lastError, lastErrorTime,
                 lastUsage, conversationTitle, isProcessing,
                 wasInterruptedByNewMessage, history, cfgVars,
                 now, stepsLeft, turnsLeft, opsLeft, stopsLeft>>
  /\ cmdResult' = NoCommand

(***************************************************************************)
(* Turn runner: the Claude path.                                           *)
(***************************************************************************)
\* the inputs a turn has consumed: text blocks, tools and commands (accepted
\* or rejected), the answers of the ask-user store ("poll"), thinking,
\* failures a backend reported ("error") and
\* exceptions a backend stream raised ("throw")
Log(kind, text) == Append(inputLog, [kind |-> kind, text |-> text])

\* variant of CaptureSessionId that takes the id of every event that carries
\* one
CaptureSessionId_Always(sid) ==
  IF sid # Null
  THEN [sessionId |-> sid, history |-> saveSession(sid)]
  ELSE [sessionId |-> sessionId, history |-> history]

\* variant of CaptureSessionId that takes the id without saving the session
CaptureSessionId_NoSave(sid) ==
  IF sessionId = Null /\ sid # Null
  THEN [sessionId |-> sid, history |-> history]
  ELSE [sessionId |-> sessionId, history |-> history]

\* "Capture session_id from first message": this.sessionId and the saved
\* history after an event whose session_id is sid
CaptureSessionId(sid) ==
  IF sessionId = Null /\ sid # Null
  THEN [sessionId |-> sid, history |-> saveSession(sid)]
  ELSE [sessionId |-> sessionId, history |-> history]

\* one iteration of `for await (const event of queryInstance)` up to the
\* content blocks of an assistant message
ClaudeEvent ==
  /\ pc = "loop" /\ turnKind = "claude"
  /\ stepsLeft > 0
  /\ stepsLeft' = stepsLeft - 1
  /\ \E type \in {"system", "assistant", "result"},
        sid \in ClaudeIds \cup {Null}, usage \in BOOLEAN :
       IF stopRequested
         THEN /\ ExitNormal
              /\ UNCHANGED <<sessionId, history, lastUsage, queryCompleted>>
         ELSE /\ sessionId' = CaptureSessionId(sid).sessionId
              /\ history' = CaptureSessionId(sid).history
              /\ Continue(IF type = "assistant" THEN "blocks" ELSE "loop",
                          currentTool)
              /\ queryCompleted' = (queryCompleted \/ type = "result")
              /\ lastUsage' = IF type = "result" /\ usage THEN "usage"
                              ELSE lastUsage
  /\ UNCHANGED <<identVars, lastTool, conversationTitle, stopRequested,
                 isProcessing, wasInterruptedByNewMessage, turnKind,
                 isNewSession, threadId, aborted, responseParts,
                 currentSegmentId, currentSegmentText, lastTextUpdate,
                 textCallbackCount, lastEmittedTextLength, askUserTriggered,
                 events, retval, now, inputLog, turnsLeft, opsLeft, stopsLeft, cfgVars>>
  /\ cmdResult' = NoCommand

\* the query generator is exhausted
ClaudeStreamEnd ==
  /\ pc = "loop" /\ turnKind = "claude"
  /\ ExitNormal
  /\ UNCHANGED <<identVars, sessionId, lastTool, lastUsage,
                 conversationTitle, stopRequested, isProcessing,
                 wasInterruptedByNewMessage, history, localVars, events,
                 retval, envVars, cfgVars>>
  /\ cmdResult' = NoCommand

\* the query generator raises (abort signal, transport or backend failure)
ClaudeStreamThrow ==
  /\ pc = "loop" /\ turnKind = "claude"
  /\ \E msg \in StreamErrors :
       /\ ClaudeCatch(msg)
       /\ inputLog' = Log("throw", msg)
  /\ UNCHANGED <<identVars, sessionId, lastTool, lastUsage,
                 conversationTitle, stopRequested, isProcessing,
                 wasInterruptedByNewMessage, history, turnKind, isNewSession,
                 threadId, aborted, responseParts, currentSegmentId,
                 currentSegmentText, lastTextUpdate, textCallbackCount,
                 lastEmittedTextLength, queryCompleted, askUserTriggered,
                 events, retval, now, stepsLeft, turnsLeft, opsLeft,
                 stopsLeft, cfgVars>>
  /\ cmdResult' = NoCommand

\* a thinking block with non-empty text
ClaudeThinking ==
  /\ pc = "blocks" /\ turnKind = "claude"
  /\ stepsLeft > 0
  /\ stepsLeft' = stepsLeft - 1
  /\ events' = Append(events, Ev("thinking", "hmm", NoSeg))
  /\ inputLog' = Log("thinking", "hmm")
  /\ UNCHANGED <<identVars, obsVars, ctlVars, history, pc, localVars,
                 outcome, retval, now, turnsLeft, opsLeft, stopsLeft, cfgVars>>
  /\ cmdResult' = NoCommand

\* variant of ClaudeToolVerdict that lets every file tool use the exception
\* for temp paths and .claude directories
ClaudeToolVerdict_AnyTmpAccess(toolName, arg) ==
  LET verdict == IF toolName = "Bash" THEN Safety[arg] ELSE <<TRUE, "">>
      isTmpRead == /\ toolName \in {"Read", "Write", "Edit"}
                   /\ \/ \E p \in TEMP_PATHS : startsWith(arg, p)
                      \/ includes(arg, "/.claude/")
  IN IF toolName = "Bash" /\ ~verdict[1]
       THEN [shown |-> "BLOCKED: " \o verdict[2],
             error |-> "Unsafe command blocked: " \o verdict[2]]
     ELSE IF /\ toolName \in {"Read", "Write", "Edit"}
             /\ arg # ""
             /\ ~isTmpRead
             /\ ~isPathAllowed(arg)
       THEN [shown |-> "Access denied: " \o arg,
             error |-> "File access blocked: " \o arg]
     ELSE [shown |-> Null, error |-> Null]

\* the message a rejected tool_use block throws, or Null when it is accepted
ClaudeToolVerdict(toolName, arg) ==
  LET verdict == IF toolName = "Bash" THEN Safety[arg] ELSE <<TRUE, "">>
      isTmpRead == /\ toolName = "Read"
                   /\ \/ \E p \in TEMP_PATHS : startsWith(arg, p)
                      \/ includes(arg, "/.claude/")
  IN IF toolName = "Bash" /\ ~verdict[1]
       THEN [shown |-> "BLOCKED: " \o verdict[2],
             error |-> "Unsafe command blocked: " \o verdict[2]]
     ELSE IF /\ toolName \in {"Read", "Write", "Edit"}
             /\ arg # ""
             /\ ~isTmpRead
             /\ ~isPathAllowed(arg)
       THEN [shown |-> "Access denied: " \o arg,
             error |-> "File access blocked: " \o arg]
     ELSE [shown |-> Null, error |-> Null]

\* what checkPendingAskUserRequests would answer at each of the three attempts
PendingStores == [1..3 -> BOOLEAN]

\* variant of PollAskUser that polls three times whatever it finds
PollAskUser_All(store, attempt) ==
  [i \in 1..(4 - attempt) |-> store[attempt + i - 1]]

RECURSIVE PollAskUser(_, _)
\* the answers the retry loop gets from `attempt` on: it stops at the first
\* poll that sent buttons and gives up after the third
PollAskUser(store, attempt) ==
  IF attempt > 3 THEN <<>>
  ELSE IF store[attempt] THEN <<TRUE>>
  ELSE <<FALSE>> \o PollAskUser(store, attempt + 1)

\* the log entries of a sequence of polls
PollLog(polls) ==
  [i \in 1..Len(polls) |->
     [kind |-> "poll", text |-> IF polls[i] THEN "found" ELSE "none"]]

\* a tool_use block; store is what polling the ask-user store would yield
ClaudeToolUse ==
  /\ pc = "blocks" /\ turnKind = "claude"
  /\ stepsLeft > 0
  /\ stepsLeft' = stepsLeft - 1
  /\ \E tool \in ClaudeTools, store \in PendingStores :
       LET toolName == tool[1]
           verdict == ClaudeToolVerdict(toolName, tool[2])
           isAskUser == startsWith(toolName, "mcp__ask-user")
           toolDisplay == formatToolStatus(toolName, tool[2])
           polls == IF isAskUser THEN PollAskUser(store, 1) ELSE <<>>
           buttonsSent == \E i \in 1..Len(polls) : polls[i]
       IN IF verdict.error # Null
            THEN /\ events' = Append(events, Ev("tool", verdict.shown, NoSeg))
                 /\ pendingError' = verdict.error
                 /\ pc' = "rejected"
                 /\ inputLog' = Log("rejected", toolName)
                 /\ UNCHANGED <<currentTool, lastTool, currentSegmentId,
                                currentSegmentText, askUserTriggered>>
            ELSE /\ events' = events \o CloseSegment.emit \o
                      (IF isAskUser THEN <<>>
                       ELSE <<Ev("tool", toolDisplay, NoSeg)>>)
                 /\ currentSegmentId' = CloseSegment.id
                 /\ currentSegmentText' = ""
                 /\ currentTool' = toolDisplay
                 /\ lastTool' = toolDisplay
                 /\ askUserTriggered' =
                      (askUserTriggered \/ buttonsSent)
                 /\ inputLog' = Log("tool", toolName) \o PollLog(polls)
                 /\ UNCHANGED <<pc, pendingError>>
  /\ UNCHANGED <<identVars, sessionId, lastActivity, queryStarted, lastError,
                 lastErrorTime, lastUsage, conversationTitle, ctlVars,
                 history, turnKind, isNewSession, threadId, aborted,
                 responseParts, lastTextUpdate, textCallbackCount,
                 lastEmittedTextLength, queryCompleted, outcome, retval, now,
                 turnsLeft, opsLeft, stopsLeft, cfgVars>>
  /\ cmdResult' = NoCommand

\* a text block
ClaudeText ==
  /\ pc = "blocks" /\ turnKind = "claude"
  /\ stepsLeft > 0
  /\ stepsLeft' = stepsLeft - 1
  /\ \E text \in TextBlocks :
       /\ TextUpdate(text)
       /\ inputLog' = Log("text", text)
  /\ UNCHANGED <<identVars, obsVars, ctlVars, history, pc, turnKind,
                 isNewSession, threadId, aborted, pendingError,
                 currentSegmentId, queryCompleted, askUserTriggered,
                 outcome, retval, now, turnsLeft, opsLeft, stopsLeft, cfgVars>>
  /\ cmdResult' = NoCommand

\* the content blocks of the assistant message are exhausted
ClaudeMessageEnd ==
  /\ pc = "blocks" /\ turnKind = "claude"
  /\ IF askUserTriggered THEN ExitNormal ELSE Continue("loop", currentTool)
  /\ UNCHANGED <<identVars, sessionId, lastTool, lastUsage,
                 conversationTitle, stopRequested, isProcessing,
                 wasInterruptedByNewMessage, history, localVars, events,
                 retval, envVars, cfgVars>>
  /\ cmdResult' = NoCommand

\* the `throw` that follows the callback of a rejected tool or command
ThrowRejected ==
  /\ pc = "rejected"
  /\ IF turnKind = "claude" THEN ClaudeCatch(pendingError)
     ELSE CodexCatch(pendingError)
  /\ UNCHANGED <<identVars, sessionId, lastTool, lastUsage,
                 conversationTitle, stopRequested, isProcessing,
                 wasInterruptedByNewMessage, history, turnKind, isNewSession,
                 threadId, aborted, responseParts, currentSegmentId,
                 currentSegmentText, lastTextUpdate, textCallbackCount,
                 lastEmittedTextLength, queryCompleted, askUserTriggered,
                 events, retval, envVars, cfgVars>>
  /\ cmdResult' = NoCommand

(***************************************************************************)
(* Turn runner: the Codex path.                                            *)
(***************************************************************************)
\* events of the Codex stream: [type, item type, text / message / command]
CodexEvents ==
  ({"error", "turn.failed"} \X {""} \X (StreamErrors \cup {""}))
  \cup ({"thread.started"} \X {""} \X CodexIds)
  \cup {<<"item.completed", "reasoning", "hmm">>,
        <<"item.completed", "", "">>,
        <<"turn.completed", "", "">>}
  \cup ({"item.completed"} \X {"command_execution"} \X CodexCommands)
  \cup ({"item.completed"} \X {"agent_message"} \X TextBlocks)

\* one iteration of `for await (const event of result.events)`
CodexEvent ==
  /\ pc = "loop" /\ turnKind = "codex"
  /\ stepsLeft > 0
  /\ stepsLeft' = stepsLeft - 1
  /\ \E event \in CodexEvents :
       LET type == event[1]
           item == event[2]
           text == event[3]
           verdict == Safety[text]
           toolDisplay == formatToolStatus("Bash", text)
           silent == UNCHANGED <<events, responseParts, currentSegmentId,
                                 currentSegmentText, lastTextUpdate,
                                 textCallbackCount, lastEmittedTextLength,
                                 lastTool, sessionId, history, threadId>>
           quiet == silent /\ UNCHANGED inputLog
           errorMessage == IF text # "" THEN text
                           ELSE "Unknown Codex stream error"
           failedMessage == IF text # "" THEN text ELSE "Codex turn failed"
       IN IF stopRequested
            THEN ExitNormal /\ quiet
          ELSE IF type = "error"
            THEN /\ CodexCatch(errorMessage)
                 /\ inputLog' = Log("error", errorMessage)
                 /\ silent
          ELSE IF type = "turn.failed"
            THEN /\ CodexCatch(failedMessage)
                 /\ inputLog' = Log("error", failedMessage)
                 /\ silent
          ELSE IF type = "thread.started"
            THEN /\ threadId' = IF threadId = Null THEN text ELSE threadId
                 /\ Continue("loop", currentTool)
                 /\ UNCHANGED <<events, responseParts, currentSegmentId,
                                currentSegmentText, lastTextUpdate,
                                textCallbackCount, lastEmittedTextLength,
                                lastTool, sessionId, history, inputLog>>
          ELSE IF type = "item.completed" /\ item = "reasoning" /\ text # ""
            THEN /\ events' = Append(events, Ev("thinking", text, NoSeg))
                 /\ inputLog' = Log("thinking", text)
                 /\ Continue("loop", currentTool)
                 /\ UNCHANGED <<responseParts, currentSegmentId,
                                currentSegmentText, lastTextUpdate,
                                textCallbackCount, lastEmittedTextLength,
                                lastTool, sessionId, history, threadId>>
          ELSE IF type = "item.completed" /\ item = "command_execution"
                  /\ ~verdict[1]
            THEN /\ events' = Append(events,
                        Ev("tool", "BLOCKED: " \o verdict[2], NoSeg))
                 /\ inputLog' = Log("rejected", "Bash")
                 /\ pendingError' = "Unsafe command blocked: " \o verdict[2]
                 /\ pc' = "rejected"
                 /\ UNCHANGED <<isQueryRunning, abortController, queryStarted,
                                currentTool, lastActivity, lastError,
                                lastErrorTime, outcome, responseParts,
                                currentSegmentId, currentSegmentText,
                                lastTextUpdate, textCallbackCount,
                                lastEmittedTextLength, lastTool, sessionId,
                                history, threadId>>
          ELSE IF type = "item.completed" /\ item = "command_execution"
            THEN /\ events' = events \o CloseSegment.emit \o
                                <<Ev("tool", toolDisplay, NoSeg)>>
                 /\ currentSegmentId' = CloseSegment.id
                 /\ currentSegmentText' = ""
                 /\ lastTool' = toolDisplay
                 /\ inputLog' = Log("tool", "Bash")
                 /\ Continue("loop", toolDisplay)
                 /\ UNCHANGED <<responseParts, lastTextUpdate,
                                textCallbackCount, lastEmittedTextLength,
                                sessionId, history, threadId>>
          ELSE IF type = "item.completed" /\ item = "agent_message"
                  /\ text # ""
            THEN /\ TextUpdate(text)
                 /\ inputLog' = Log("text", text)
                 /\ Continue("loop", currentTool)
                 /\ UNCHANGED <<currentSegmentId, lastTool, sessionId,
                                history, threadId>>
          ELSE IF type = "turn.completed"
            THEN /\ IF threadId # Null
                      THEN /\ sessionId' = threadId
                           /\ history' = saveSession(threadId)
                      ELSE UNCHANGED <<sessionId, history>>
                 /\ ExitNormal
                 /\ UNCHANGED <<events, responseParts, currentSegmentId,
                                currentSegmentText, lastTextUpdate,
                                textCallbackCount, lastEmittedTextLength,
                                lastTool, threadId, inputLog>>
          ELSE Continue("loop", currentTool) /\ quiet
  /\ UNCHANGED <<identVars, lastUsage, conversationTitle, stopRequested,
                 isProcessing, wasInterruptedByNewMessage, turnKind,
                 isNewSession, aborted, queryCompleted, askUserTriggered,
                 retval, now, turnsLeft, opsLeft, stopsLeft, cfgVars>>
  /\ cmdResult' = NoCommand

\* the event iterator is exhausted without turn.completed
CodexStreamEnd ==
  /\ pc = "loop" /\ turnKind = "codex"
  /\ ExitNormal
  /\ UNCHANGED <<identVars, sessionId, lastTool, lastUsage,
                 conversationTitle, stopRequested, isProcessing,
                 wasInterruptedByNewMessage, history, localVars, events,
                 retval, envVars, cfgVars>>
  /\ cmdResult' = NoCommand

\* runStreamed or the event iterator raises
CodexStreamThrow ==
  /\ pc = "loop" /\ turnKind = "codex"
  /\ \E msg \in StreamErrors :
       /\ CodexCatch(msg)
       /\ inputLog' = Log("throw", msg)
  /\ UNCHANGED <<identVars, sessionId, lastTool, lastUsage,
                 conversationTitle, stopRequested, isProcessing,
                 wasInterruptedByNewMessage, history, turnKind, isNewSession,
                 threadId, aborted, responseParts, currentSegmentId,
                 currentSegmentText, lastTextUpdate, textCallbackCount,
                 lastEmittedTextLength, queryCompleted, askUserTriggered,
                 events, retval, now, stepsLeft, turnsLeft, opsLeft,
                 stopsLeft, cfgVars>>
  /\ cmdResult' = NoCommand

(***************************************************************************)
(* Specifications.                                                         *)
(***************************************************************************)
TurnNext ==
  \/ startProcessing
  \/ sendMessageStreaming
  \/ ClaudeEvent
  \/ ClaudeStreamEnd
  \/ ClaudeStreamThrow
  \/ ClaudeThinking
  \/ ClaudeToolUse
  \/ ClaudeText
  \/ ClaudeMessageEnd
  \/ ThrowRejected
  \/ CodexEvent
  \/ CodexStreamEnd
  \/ CodexStreamThrow
  \/ Flush
  \/ Tick
  \/ stopProcessing
  \/ stop
  \/ clearStopRequested

Next ==
  \/ TurnNext
  \/ SetModel
  \/ Kill
  \/ ResumeSession

Spec == Init /\ [][Next]_vars

\* the turn runner on its own: turns and stop requests, no session commands
TurnSpec == TurnInit /\ [][TurnNext]_vars

(***************************************************************************)
(* Persistence on its own: the session file as earlier runs left it, the  *)
(* capture of backend session ids, and the session commands.              *)
(***************************************************************************)
\* a saved session as JSON.parse returns it; Null stands for an absent field
Saved(id, dir, assistant, mdl, effort) ==
  [session_id |-> id, working_dir |-> dir, title |-> "Sessione senza titolo",
   assistant |-> assistant, model |-> mdl, codex_reasoning_effort |-> effort]

\* contents of SESSION_FILE at start-up: nothing, a session of another
\* working directory, or five sessions written by other runs (other working
\* directories, and a version that recorded neither directory nor assistant)
DiskHistories ==
  { <<>>,
    <<Saved("p1", "/other", "claude", CLAUDE_MODEL, Null)>>,
    <<Saved("p1", "/other", "claude", CLAUDE_MODEL, Null),
      Saved("p2", WORKING_DIR, "codex", "gpt-5", "high"),
      Saved("p3", Null, Null, Null, Null),
      Saved("c1", WORKING_DIR, "claude", "claude-sonnet-4-5", Null),
      Saved("p5", "/other", "codex", CODEX_MODEL, "medium")>> }

PersistInit ==
  /\ InitSession /\ InitTurn
  /\ history \in DiskHistories
  /\ minChars = MaxMinChars
  /\ stepChars = MaxStepChars
  /\ throttle = MaxThrottle
  /\ stepsLeft = MaxSaves
  /\ turnsLeft = 0
  /\ stopsLeft = 0
  /\ opsLeft = MaxOps

\* a turn captures the id its backend issued and saves the session: the
\* Claude path when no session is active, the Codex path at turn.completed
CaptureSession ==
  /\ stepsLeft > 0
  /\ stepsLeft' = stepsLeft - 1
  /\ assistantMode = "claude" => sessionId = Null
  /\ \E id \in ClaudeIds \cup CodexIds :
       /\ sessionId' = id
       /\ history' = saveSession(id)
  /\ UNCHANGED <<identVars, lastActivity, queryStarted, currentTool,
                 lastTool, lastError, lastErrorTime, lastUsage,
                 conversationTitle, ctlVars, pc, localVars, outVars, cfgVars,
                 now, inputLog, turnsLeft, opsLeft, stopsLeft>>
  /\ cmdResult' = NoCommand

PersistNext ==
  \/ CaptureSession
  \/ SetModel
  \/ Kill
  \/ ResumeSession
  \/ ResumeLast

PersistSpec == PersistInit /\ [][PersistNext]_vars

(***************************************************************************)
(* The message handler: turns on a fresh session or on one resumed from   *)
(* the session file, stop requests and the interrupt flag.                 *)
(***************************************************************************)
\* SESSION_FILE as earlier runs left it: a Codex session, a session saved by
\* a version that recorded neither directory nor assistant, a Claude session
HandlerHistory ==
  <<Saved("x1", WORKING_DIR, "codex", "gpt-5", "high"),
    Saved("p3", Null, Null, Null, Null),
    Saved("c1", WORKING_DIR, "claude", "claude-sonnet-4-5", Null)>>

\* the session after construction (Null) or after resumeSession of a saved
\* session: [sessionId, assistantMode, claudeModel, codexModel, codexEffort]
StartSessions ==
  { <<Null, a, CLAUDE_MODEL, CODEX_MODEL, CODEX_REASONING_EFFORT>> :
      a \in {"claude", "codex"} }
  \cup
  { <<"p3", a, CLAUDE_MODEL, CODEX_MODEL, CODEX_REASONING_EFFORT>> :
      a \in {"claude", "codex"} }
  \cup
  { <<"x1", "codex", CLAUDE_MODEL, "gpt-5", "high">>,
    <<"c1", "claude", "claude-sonnet-4-5", CODEX_MODEL,
      CODEX_REASONING_EFFORT>> }

HandlerInit ==
  /\ InitTurn
  /\ history = HandlerHistory
  /\ \E start \in StartSessions :
       /\ sessionId = start[1]
       /\ assistantMode = start[2]
       /\ claudeModel = start[3]
       /\ codexModel = start[4]
       /\ codexEffort = start[5]
       /\ conversationTitle = IF start[1] = Null THEN Null
                              ELSE "Sessione senza titolo"
       /\ lastActivity = IF start[1] = Null THEN Null ELSE Date
  /\ claudeEffort = CLAUDE_REASONING_EFFORT
  /\ queryStarted = Null /\ currentTool = Null /\ lastTool = Null
  /\ lastError = Null /\ lastErrorTime = Null /\ lastUsage = Null
  /\ abortController = Null /\ isQueryRunning = FALSE
  /\ stopRequested = FALSE /\ isProcessing = FALSE
  /\ wasInterruptedByNewMessage = FALSE
  /\ minChars = MaxMinChars
  /\ stepChars = MaxStepChars
  /\ throttle = MaxThrottle
  /\ stepsLeft = MaxCmdSteps
  /\ turnsLeft = MaxTurns
  /\ stopsLeft = MaxStops
  /\ opsLeft = MaxOps

HandlerNext ==
  \/ TurnNext
  \/ markInterrupt
  \/ consumeInterruptFlag

HandlerSpec == HandlerInit /\ [][HandlerNext]_vars

\* turns and stop requests with the /new command
NewNext ==
  \/ TurnNext
  \/ handleNew

NewSpec == Init /\ [][NewNext]_vars

(***************************************************************************)
(* Vocabulary of the properties.                                           *)
(***************************************************************************)
\* positions of the emitted events of a given type
Positions(type) == {i \in 1..Len(events) : events[i].type = type}

\* positions of the events that carry a segment id
SegPositions == Positions("text") \cup Positions("segment_end")

\* the turn function has returned or thrown
TurnOver == outcome \in {"returned", "thrown"}

RECURSIVE Runs(_, _, _)
\* The text runs of an input log, from what the backend delivered alone:
\* text blocks extend the open run, an accepted tool closes a non-empty one.
\* The result is [closed |-> the closed runs, open |-> the open run].
Runs(log, closed, open) ==
  IF log = <<>> THEN [closed |-> closed, open |-> open]
  ELSE LET e == Head(log)
       IN IF e.kind = "text" THEN Runs(Tail(log), closed, open \o e.text)
          ELSE IF e.kind = "tool" /\ open # ""
            THEN Runs(Tail(log), Append(closed, open), "")
          ELSE Runs(Tail(log), closed, open)

InputRuns == Runs(inputLog, <<>>, "")

\* every run of the log, the open one last
AllRuns ==
  InputRuns.closed \o
    (IF InputRuns.open # "" THEN <<InputRuns.open>> ELSE <<>>)

RECURSIVE AllText(_)
\* the text blocks of an input log, concatenated in arrival order
AllText(log) ==
  IF log = <<>> THEN ""
  ELSE (IF Head(log).kind = "text" THEN Head(log).text ELSE "")
       \o AllText(Tail(log))

(***************************************************************************)
(* Claims about the status events of a turn (TurnSpec).                    *)
(***************************************************************************)

\* C1 as stated: however a turn ends (returning or throwing), its events
\* contain exactly one `done`, and it is the last event.
C1_DoneOnEveryExit ==
  TurnOver =>
    /\ Cardinality(Positions("done")) = 1
    /\ events[Len(events)].type = "done"

\* C1, amended: a turn that returns normally has emitted exactly one `done`
\* and it is its last event; a turn that throws (stop before start, safety
\* rejection, backend failure) has emitted no `done`; no `done` is emitted
\* before the turn returns.
C1_DoneOnReturn ==
  /\ outcome = "returned" =>
       /\ Positions("done") = {Len(events)}
       /\ Len(events) >= 1
  /\ outcome # "returned" => Positions("done") = {}

\* C1 witness: a turn stopped in mid-stream has returned with text flushed
C1_Witness ==
  /\ outcome = "returned"
  /\ stopRequested
  /\ Positions("segment_end") # {}
  /\ events[Len(events)].type = "done"

\* C2: the segment ids carried by `text` and `segment_end` events start at 0
\* and never decrease; the id has been incremented exactly once per accepted
\* tool/command that arrived while the open segment had text; and every
\* `text` for id N+1 comes after the `segment_end` for id N.
C2_SegmentIds ==
  /\ \A i \in SegPositions :
       /\ events[i].seg >= 0
       /\ (\A k \in SegPositions : k >= i) => events[i].seg = 0
       /\ \A j \in SegPositions :
            i < j => events[i].seg <= events[j].seg
  /\ currentSegmentId = Len(InputRuns.closed)
  /\ \A j \in Positions("text") :
       events[j].seg > 0 =>
         \E i \in Positions("segment_end") :
           i < j /\ events[i].seg = events[j].seg - 1

\* C2 witness: text of segment 1 has been emitted
C2_Witness ==
  \E j \in Positions("text") : events[j].seg = 1

\* C3: no two `segment_end` events of a turn carry the same segment id.
C3_SegmentEndOnce ==
  \A i, j \in Positions("segment_end") :
    i # j => events[i].seg # events[j].seg

\* C3 witness: a tool closed one segment and the end of the turn another
C3_Witness ==
  /\ outcome = "returned"
  /\ Cardinality(Positions("segment_end")) >= 2

\* C4 as stated: every `segment_end` is preceded by a `text` event with the
\* same segment id.
C4_SegmentEndAfterText ==
  \A j \in Positions("segment_end") :
    \E i \in Positions("text") : i < j /\ events[i].seg = events[j].seg

\* C5: the content of every `segment_end` is the concatenation, in arrival
\* order, of the text blocks that were appended to its segment.
C5_SegmentEndContent ==
  \A j \in Positions("segment_end") :
    /\ events[j].seg + 1 \in 1..Len(AllRuns)
    /\ events[j].content = AllRuns[events[j].seg + 1]

\* C5 witness: a segment ended after a synthetic prefix or tail step showed
\* only part of it
C5_Witness ==
  \E j \in Positions("segment_end") :
    \E i \in Positions("text") :
      /\ i < j
      /\ events[i].seg = events[j].seg
      /\ Len(events[i].content) < Len(events[j].content)
      /\ i + 1 = j

\* C6: a turn that returns without the ask-user wait returns the text
\* blocks of the turn concatenated in arrival order (the placeholder when
\* that is empty); a fresh Claude session that receives one text block
\* below the snapshot threshold emits `text`, `segment_end`, `done` for it
\* and returns it.
C6_FinalText ==
  (outcome = "returned" /\ ~askUserTriggered) =>
    /\ retval = IF AllText(inputLog) # "" THEN AllText(inputLog)
                ELSE IF turnKind = "claude" THEN "No response from Claude."
                ELSE "No response from Codex."
    /\ \A b \in TextBlocks :
         ( /\ turnKind = "claude"
           /\ isNewSession
           /\ inputLog = <<[kind |-> "text", text |-> b]>>
           /\ b # ""
           /\ Len(b) < minChars )
         => /\ events = <<Ev("text", b, 0), Ev("segment_end", b, 0),
                          Ev("done", "", NoSeg)>>
            /\ retval = b

\* C6 witness: a fresh Claude turn returned its single short text block
C6_Witness ==
  /\ outcome = "returned"
  /\ turnKind = "claude"
  /\ isNewSession
  /\ Len(inputLog) = 1
  /\ inputLog[1].kind = "text"
  /\ retval = inputLog[1].text
  /\ Len(events) = 3

(***************************************************************************)
(* Claims about setModel (Spec).  cmdResult describes the command the last *)
(* step executed and holds the session as it was when it was called.      *)
(***************************************************************************)
\* the model id active in a session snapshot
ActiveModel(s) ==
  IF s.assistantMode = "codex" THEN s.codexModel ELSE s.claudeModel

\* the turn-lifecycle and observability fields of a session snapshot
Observed(s) ==
  <<s.sessionId, s.lastActivity, s.queryStarted, s.currentTool, s.lastTool,
    s.lastUsage, s.lastError, s.lastErrorTime, s.conversationTitle>>

\* a selection that is empty or consists of white space only
IsBlank(selectionRaw) ==
  \A i \in 1..Len(selectionRaw) : CharAt(selectionRaw, i) \in {" ", "\t"}

\* C7: when setModel returns with the assistant kind or the active model id
\* different from before the call, sessionId is null right after the call.
C7_SwitchClearsSessionId ==
  ( /\ cmdResult.op = "setModel"
    /\ \/ cmdResult.before.assistantMode # assistantMode
       \/ ActiveModel(cmdResult.before) # model )
  => sessionId = Null

\* C7 witness: the model was switched within the same assistant while a
\* backend session was active
C7_Witness ==
  /\ cmdResult.op = "setModel"
  /\ cmdResult.before.sessionId # Null
  /\ cmdResult.before.assistantMode = assistantMode
  /\ ActiveModel(cmdResult.before) # model
  /\ sessionId = Null

\* C8 as stated: when setModel changes the assistant kind, the model id or
\* the reasoning effort, then sessionId, lastActivity, queryStarted,
\* currentTool, lastTool, lastUsage, lastError, lastErrorTime and
\* conversationTitle are all null after the call.
C8_SwitchResetsAll ==
  ( /\ cmdResult.op = "setModel"
    /\ \/ cmdResult.before.assistantMode # assistantMode
       \/ ActiveModel(cmdResult.before) # model
       \/ cmdResult.before.codexEffort # codexEffort )
  => Observed(Snapshot) = <<Null, Null, Null, Null, Null, Null, Null, Null,
                            Null>>

\* C9: setModel with an empty or white-space-only selection fails with the
\* usage message and leaves every field of the session as it was.
C9_BlankSelectionFails ==
  (cmdResult.op = "setModel" /\ IsBlank(cmdResult.arg)) =>
    /\ ~cmdResult.ok
    /\ cmdResult.message = "Usage: /model"
    /\ Snapshot = cmdResult.before

\* C9 witness: a white-space selection was rejected while a session was
\* active
C9_Witness ==
  /\ cmdResult.op = "setModel"
  /\ cmdResult.arg = "  "
  /\ ~cmdResult.ok
  /\ sessionId # Null

\* C10: when the selection resolves to the assistant kind, model id and
\* Codex effort that are already active, setModel succeeds with the
\* "unchanged" message and sessionId and the observability fields stay as
\* they were.
C10_UnchangedKeepsSession ==
  ( /\ cmdResult.op = "setModel"
    /\ cmdResult.ok
    /\ cmdResult.before.assistantMode = assistantMode
    /\ ActiveModel(cmdResult.before) = model
    /\ cmdResult.before.codexEffort = codexEffort )
  => /\ cmdResult.message = "Model unchanged"
     /\ Observed(Snapshot) = Observed(cmdResult.before)

\* C10 witness: the active Codex preset was selected again while a session
\* was active
C10_Witness ==
  /\ cmdResult.op = "setModel"
  /\ cmdResult.message = "Model unchanged"
  /\ assistantMode = "codex"
  /\ sessionId # Null

\* a selection that is neither blank, nor a Codex preset, nor a Claude
\* alias, nor one of the bare keywords "claude" and "codex"
IsLiteral(selectionRaw) ==
  LET selection == trim(selectionRaw) IN
  /\ selection # ""
  /\ parseCodexPreset(selection) = NoPreset
  /\ parseClaudeAlias(selection) = Null
  /\ toLowerCase(selection) \notin {"claude", "codex"}

\* C11 as stated: every selection that is not blank, not a Codex preset, not
\* a Claude alias and not a bare keyword succeeds and makes Codex the
\* assistant, with the selection text as the model id.
C11_LiteralFallback ==
  (cmdResult.op = "setModel" /\ IsLiteral(cmdResult.arg)) =>
    /\ cmdResult.ok
    /\ assistantMode = "codex"
    /\ codexModel = trim(cmdResult.arg)

\* C11, amended: such a selection succeeds and makes Codex the assistant with
\* the trimmed selection, its case kept, as the model id and the Codex effort
\* as it was, unless it starts with "claude" (in any case): then setModel
\* fails with the "Claude models" message and changes no field.
C11_LiteralFallbackUnlessClaude ==
  (cmdResult.op = "setModel" /\ IsLiteral(cmdResult.arg)) =>
    IF startsWith(toLowerCase(trim(cmdResult.arg)), "claude")
    THEN /\ ~cmdResult.ok
         /\ cmdResult.message = "Claude models"
         /\ Snapshot = cmdResult.before
    ELSE /\ cmdResult.ok
         /\ assistantMode = "codex"
         /\ codexModel = trim(cmdResult.arg)
         /\ codexEffort = cmdResult.before.codexEffort
         /\ claudeModel = cmdResult.before.claudeModel

\* C11 witness: an unknown model id in upper case, given with surrounding
\* blanks while a Claude session was active, became the Codex model
C11_Witness ==
  /\ cmdResult.op = "setModel"
  /\ cmdResult.arg = " GPT-5 "
  /\ cmdResult.before.assistantMode = "claude"
  /\ cmdResult.before.sessionId # Null
  /\ assistantMode = "codex"
  /\ codexModel = "GPT-5"
  /\ sessionId = Null

(***************************************************************************)
(* Claims about sessions and assistants (Spec).                            *)
(***************************************************************************)
\* the backend that issues a session / thread id
IssuedBy(id) ==
  IF id \in ClaudeIds THEN "claude"
  ELSE IF id \in CodexIds THEN "codex"
  ELSE Null

\* C12 as stated: in every reachable state a non-null sessionId was issued by
\* the backend of the assistant now selected, and every saved session is
\* recorded under the assistant whose backend issued its id; a turn still
\* running when the assistant is switched never writes its id under the new
\* assistant.
C12_SessionIdOfAssistant ==
  /\ sessionId # Null => IssuedBy(sessionId) = assistantMode
  /\ \A i \in 1..Len(history) :
       history[i].assistant = IssuedBy(history[i].session_id)

(***************************************************************************)
(* Claims about the saved sessions (PersistSpec).                          *)
(***************************************************************************)
\* the saved entries that carry a session id
EntriesOf(id) == {i \in 1..Len(history) : history[i].session_id = id}

\* the entry resumeSession(id) reads
EntryOf(id) == history[CHOOSE i \in EntriesOf(id) : TRUE]

\* a saved session that belongs to the current working directory
Eligible(s) == s.working_dir = Null \/ s.working_dir = WORKING_DIR

\* the last step was a resume command
Resumed == cmdResult.op \in {"resumeSession", "resumeLast"}

\* C13: after any sequence of saves the session file holds at most 5
\* sessions and no two of them share a session id.
C13_HistoryBounded ==
  /\ Len(history) <= 5
  /\ \A i, j \in 1..Len(history) :
       history[i].session_id = history[j].session_id => i = j

\* C13 witness: two new sessions were saved in front of a full file, the two
\* oldest entries were dropped
C13_Witness ==
  /\ Len(history) = 5
  /\ history[1].session_id = "x1"
  /\ history[2].session_id = "c2"
  /\ history[5].session_id = "p3"

\* C14: getSessionList holds exactly the saved sessions whose working_dir is
\* absent or the current one, in stored order; resumeLast resumes the first
\* of them and fails when there is none; no resume command ever makes a
\* session of another working directory the active one.
C14_SessionList ==
  LET list == getSessionList
      Pos(s) == CHOOSE i \in 1..Len(history) : history[i] = s
  IN /\ \A j \in 1..Len(list) :
          /\ Eligible(list[j])
          /\ \E i \in 1..Len(history) : history[i] = list[j]
     /\ \A i \in 1..Len(history) :
          Eligible(history[i]) => \E j \in 1..Len(list) : list[j] = history[i]
     /\ \A j, k \in 1..Len(list) : j < k => Pos(list[j]) < Pos(list[k])
     /\ cmdResult.op = "resumeLast" =>
          IF \A i \in 1..Len(history) : ~Eligible(history[i])
          THEN /\ ~cmdResult.ok
               /\ cmdResult.message = "Nessuna sessione salvata"
               /\ Snapshot = cmdResult.before
          ELSE /\ cmdResult.ok
               /\ sessionId = list[1].session_id
     /\ (Resumed /\ cmdResult.ok) =>
          /\ sessionId = cmdResult.arg
          /\ Eligible(EntryOf(sessionId))
     /\ (Resumed /\ cmdResult.arg # "" /\ EntriesOf(cmdResult.arg) # {}
         /\ ~Eligible(EntryOf(cmdResult.arg))) =>
          /\ ~cmdResult.ok
          /\ sessionId = cmdResult.before.sessionId

\* C14 witness: resumeLast passed over a first entry of another directory
\* and resumed the second
C14_Witness ==
  /\ cmdResult.op = "resumeLast"
  /\ cmdResult.ok
  /\ Len(history) = 5
  /\ ~Eligible(history[1])
  /\ sessionId = history[2].session_id

\* C15: resumeSession(id) fails with "not found" when no saved session has
\* that id and with the different "other directory" message when the saved
\* session belongs to another working directory; in both cases every field
\* of the session stays as it was.
C15_ResumeFailures ==
  cmdResult.op = "resumeSession" =>
    /\ EntriesOf(cmdResult.arg) = {} =>
         /\ ~cmdResult.ok
         /\ cmdResult.message = "Sessione non trovata"
         /\ Snapshot = cmdResult.before
    /\ (EntriesOf(cmdResult.arg) # {} /\ ~Eligible(EntryOf(cmdResult.arg))) =>
         /\ ~cmdResult.ok
         /\ cmdResult.message = "Sessione per directory diversa"
         /\ cmdResult.message # "Sessione non trovata"
         /\ Snapshot = cmdResult.before

\* C15 witness: a session of another directory was refused while a session
\* captured in this run was active
C15_Witness ==
  /\ cmdResult.op = "resumeSession"
  /\ cmdResult.arg = "p1"
  /\ cmdResult.message = "Sessione per directory diversa"
  /\ sessionId \in CodexIds

\* a successful resume leaves the session with what the saved entry records
RestoresEntry ==
  (Resumed /\ cmdResult.ok) =>
    LET e == EntryOf(cmdResult.arg) IN
    /\ sessionId = cmdResult.arg
    /\ conversationTitle = e.title
    /\ lastActivity = Date
    /\ (e.assistant # Null /\ e.model # Null) =>
         /\ assistantMode = e.assistant
         /\ model = e.model
         /\ e.assistant = "codex" => codexEffort = e.codex_reasoning_effort
    /\ isQueryRunning = cmdResult.before.isQueryRunning
    /\ stopRequested = cmdResult.before.stopRequested

\* a step that writes the session file records the active session under the
\* identity of that moment, and only a save writes the file
SaveRecordsIdentity ==
  history' # history =>
    /\ sessionId' # Null
    /\ \E i \in 1..Len(history') :
         /\ history'[i].session_id = sessionId'
         /\ history'[i].working_dir = WORKING_DIR
         /\ history'[i].assistant = assistantMode'
         /\ history'[i].model = model'
         /\ assistantMode' = "codex" =>
              history'[i].codex_reasoning_effort = codexEffort'

\* C16: round trip.  A session saved under assistant K, model M, effort E (for
\* Codex) and id S, and then left by kill or setModel, is restored by a
\* successful resumeSession(S): assistant K, active model M, effort E,
\* sessionId S, lastActivity set, isQueryRunning and stopRequested untouched.
C16_RoundTrip == [][SaveRecordsIdentity]_vars /\ []RestoresEntry

\* C16 witness: a Codex session saved with effort medium was resumed after
\* setModel had raised the effort and cleared the session
C16_Witness ==
  /\ cmdResult.op = "resumeSession"
  /\ cmdResult.ok
  /\ cmdResult.arg \in CodexIds
  /\ cmdResult.before.sessionId = Null
  /\ cmdResult.before.codexEffort = "high"
  /\ codexEffort = "medium"
  /\ assistantMode = "codex"

(***************************************************************************)
(* Claims about stop requests (TurnSpec).                                  *)
(***************************************************************************)
\* C17: stop() returns "stopped" and sets stopRequested whenever a query is
\* running, signalling the abort controller when there is one, also when the
\* processing flag is set; it returns "pending" and sets stopRequested when
\* only the processing flag is set; it returns false and changes nothing when
\* neither is set.  No other field of the session changes.
C17_StopResult ==
  cmdResult.op = "stop" =>
    LET b == cmdResult.before IN
    /\ b.isQueryRunning =>
         /\ cmdResult.message = "stopped"
         /\ stopRequested
         /\ b.abortController # Null => aborted
    /\ (~b.isQueryRunning /\ b.isProcessing) =>
         /\ cmdResult.message = "pending"
         /\ stopRequested
    /\ (~b.isQueryRunning /\ ~b.isProcessing) =>
         /\ cmdResult.message = "false"
         /\ ~cmdResult.ok
         /\ stopRequested = b.stopRequested
    /\ [Snapshot EXCEPT !.stopRequested = b.stopRequested] = b

\* C17 witness: stop() aborted a running Claude query while the processing
\* flag was set
C17_Witness ==
  /\ cmdResult.op = "stop"
  /\ cmdResult.message = "stopped"
  /\ cmdResult.before.isProcessing
  /\ cmdResult.before.abortController # Null
  /\ aborted
  /\ stopRequested

C19_StopBreaksLoop ==
  /\ [][ (pc = "loop" /\ stopRequested /\ stepsLeft' < stepsLeft) =>
           /\ pc' = "flush"
           /\ events' = events
           /\ inputLog' = inputLog
           /\ responseParts' = responseParts
           /\ currentSegmentText' = currentSegmentText
           /\ sessionId' = sessionId
           /\ ~isQueryRunning'
           /\ ~askUserTriggered'
           /\ outcome' # "thrown" ]_vars
  /\ [][ (pc = "flush" /\ pc' # "flush" /\ ~askUserTriggered) =>
           LET added == SubSeq(events', Len(events) + 1, Len(events'))
               open == currentSegmentText # ""
               k == Len(added)
           IN /\ outcome' = "returned"
              /\ SubSeq(events', 1, Len(events)) = events
              /\ k >= 1
              /\ added[k] = Ev("done", "", NoSeg)
              /\ open => /\ k >= 2
                         /\ added[k - 1] = Ev("segment_end",
                                              currentSegmentText,
                                              currentSegmentId)
              /\ ~open => k = 1
              /\ \A i \in 1..(k - 2) :
                   /\ added[i].type = "text"
                   /\ added[i].seg = currentSegmentId
                   /\ added[i].content =
                        Slice(currentSegmentText, Len(added[i].content)) ]_vars

\* C19 witness: a Codex turn with an open segment was stopped in its loop
\* and has returned with the segment closed
C19_Witness ==
  /\ turnKind = "codex"
  /\ outcome = "returned"
  /\ stopRequested
  /\ cmdResult.op = "none"
  /\ stopsLeft < MaxStops
  /\ pendingError = Null
  /\ currentSegmentText # ""
  /\ Len(events) >= 2
  /\ events[Len(events) - 1].type = "segment_end"
  /\ threadId = Null
  /\ sessionId = Null

\* the turn was ended by a stop request: cancelled before it started, or its
\* aborted stream raised the abort error
EndedByStop ==
  \/ pendingError = "Query cancelled"
  \/ aborted /\ pendingError = "Request was aborted"

\* C20 as stated: a turn ended by a stop request, before the query started or
\* in mid-stream, does not throw and records no lastError.
C20_StopNeverThrows ==
  EndedByStop => (outcome # "thrown" /\ lastError = Null)

(***************************************************************************)
(* Claims about the interrupt flag and resumed sessions (HandlerSpec).     *)
(***************************************************************************)
\* C21: consumeInterruptFlag returns true exactly when markInterrupt was
\* called since the last consume (the flag is set by markInterrupt and by
\* nothing else, cleared by consumeInterruptFlag and by nothing else, and the
\* call returns the flag it found); it leaves the flag false; when it
\* returns true stopRequested is false afterwards, when it returns false
\* stopRequested is unchanged; no other field changes; and a second
\* consecutive call returns false.
C21_InterruptFlag ==
  /\ [][ /\ wasInterruptedByNewMessage' # wasInterruptedByNewMessage =>
              cmdResult'.op = IF wasInterruptedByNewMessage'
                              THEN "markInterrupt"
                              ELSE "consumeInterruptFlag"
         /\ cmdResult'.op = "markInterrupt" => wasInterruptedByNewMessage'
         /\ ( /\ cmdResult.op = "consumeInterruptFlag"
              /\ cmdResult'.op = "consumeInterruptFlag" )
            => ~cmdResult'.ok ]_vars
  /\ [](cmdResult.op = "consumeInterruptFlag" =>
          LET b == cmdResult.before IN
          /\ cmdResult.ok = b.wasInterruptedByNewMessage
          /\ ~wasInterruptedByNewMessage
          /\ cmdResult.ok => ~stopRequested
          /\ ~cmdResult.ok => stopRequested = b.stopRequested
          /\ [Snapshot EXCEPT
                !.stopRequested = b.stopRequested,
                !.wasInterruptedByNewMessage = b.wasInterruptedByNewMessage]
             = b)

\* C21 witness: the flag was consumed after an interrupting message had
\* stopped a running query, and the stop request was cleared with it
C21_Witness ==
  /\ cmdResult.op = "consumeInterruptFlag"
  /\ cmdResult.ok
  /\ cmdResult.before.stopRequested
  /\ cmdResult.before.isQueryRunning
  /\ ~stopRequested
  /\ ~wasInterruptedByNewMessage

(***************************************************************************)
(* Claims about rejections, failures and the end of a turn (TurnSpec).     *)
(***************************************************************************)
\* the turn has been handed a tool or command that the safety policy rejects
Rejected == \E i \in 1..Len(inputLog) : inputLog[i].kind = "rejected"

\* the last event emitted reports a shell command that checkCommandSafety
\* rejected
BlockedShown(evs) ==
  /\ evs # <<>>
  /\ evs[Len(evs)].type = "tool"
  /\ startsWith(evs[Len(evs)].content, "BLOCKED: ")

\* C22 as stated: a shell command that checkCommandSafety rejects adds one
\* `tool` event carrying the block reason and nothing else (no segment_end,
\* no tool label, no segment id increment), and the turn then throws without
\* emitting any further event.
C22_RejectionThrows ==
  /\ [][ (pc # "rejected" /\ pc' = "rejected" /\ BlockedShown(events')) =>
           /\ \E command \in Commands :
                /\ ~Safety[command][1]
                /\ events' = Append(events,
                     Ev("tool", "BLOCKED: " \o Safety[command][2], NoSeg))
                /\ pendingError' =
                     "Unsafe command blocked: " \o Safety[command][2]
           /\ currentSegmentId' = currentSegmentId
           /\ currentSegmentText' = currentSegmentText
           /\ lastTool' = lastTool
           /\ currentTool' = currentTool ]_vars
  /\ [][ (pc = "rejected" /\ BlockedShown(events)) =>
           /\ events' = events
           /\ currentSegmentId' = currentSegmentId
           /\ pc' # "rejected" =>
                /\ outcome' = "thrown"
                /\ pendingError' = pendingError
                /\ pc' = "finished" ]_vars
  /\ [][ (pc = "finished" /\ BlockedShown(events) /\ Rejected) =>
           events' = events \/ pc' = "loop" \/ events' = <<>> ]_vars

\* C26 as stated: a turn that was handed a rejected tool or command throws
\* and records lastError whatever else happens meanwhile; it never returns
\* normally and never emits `done`.
C26_RejectionFailClosed ==
  (Rejected /\ pc \notin {"rejected", "blocks", "loop"}) =>
    /\ outcome = "thrown"
    /\ lastError = Slice(ErrorString(pendingError), 100)
    /\ lastErrorTime = Date
    /\ Positions("done") = {}

\* the last input the turn consumed
LastInput == inputLog[Len(inputLog)]

\* C23: when the backend reports a failure (Codex `error` / `turn.failed`)
\* the turn throws an error carrying the reported message; whenever a turn
\* throws an error of its backend or of the safety policy, lastError is
\* String(error) cut to 100 characters and lastErrorTime is set; after a
\* turn that returned normally both are null.
C23_FailureRecorded ==
  /\ (inputLog # <<>> /\ LastInput.kind = "error") =>
       /\ outcome = "thrown"
       /\ pendingError = LastInput.text
  /\ (outcome = "thrown" /\ pendingError # "Query cancelled") =>
       /\ lastError = Slice("Error: " \o pendingError, 100)
       /\ Len(lastError) <= 100
       /\ lastErrorTime = Date
       /\ inputLog # <<>>
       /\ LastInput.kind \in {"error", "throw", "rejected"}
       /\ LastInput.kind \in {"error", "throw"} =>
            pendingError = LastInput.text
  /\ outcome = "returned" =>
       /\ lastError = Null
       /\ lastErrorTime = Null

\* C23 witness: a Codex turn failed with a message longer than lastError
\* holds
C23_Witness ==
  /\ turnKind = "codex"
  /\ outcome = "thrown"
  /\ inputLog # <<>>
  /\ LastInput.kind = "error"
  /\ Len(pendingError) > 100
  /\ Len(lastError) = 100
  /\ lastErrorTime = Date

\* a Codex turn takes turn.completed from its stream (the only event that
\* leaves the loop normally while no stop is requested)
CodexCompletes ==
  /\ pc = "loop" /\ turnKind = "codex"
  /\ ~stopRequested
  /\ stepsLeft' < stepsLeft
  /\ pc' = "flush"

\* C24: a Codex turn that starts on a session whose thread cannot be resumed
\* does not fail: it clears sessionId, runs on a fresh thread (no thread id
\* yet) and enters its event loop running; when such a turn takes
\* turn.completed, sessionId becomes the id of the fresh thread and is saved.
C24_ResumeFallback ==
  /\ [][ ( /\ pc = "processing" /\ pc' # "processing"
           /\ assistantMode = "codex"
           /\ sessionId # Null
           /\ ~stopRequested )
         => /\ pc' = "loop"
            /\ outcome' = "none"
            /\ isQueryRunning'
            /\ ~isNewSession'
            /\ \/ threadId' = sessionId /\ sessionId' = sessionId
               \/ threadId' = Null /\ sessionId' = Null ]_vars
  /\ [][ (CodexCompletes /\ ~isNewSession /\ sessionId = Null) =>
           /\ sessionId' = threadId
           /\ threadId # Null =>
                /\ Len(history') >= 1
                /\ history'[1] = SavedEntry(threadId)
           /\ outcome' # "thrown"
           /\ lastError' = Null ]_vars

\* C24 witness: the thread of a resumed Codex session could not be resumed;
\* the turn ran on the fresh thread x2 and returned with x2 as session id
C24_Witness ==
  /\ turnKind = "codex"
  /\ ~isNewSession
  /\ outcome = "returned"
  /\ threadId = "x2"
  /\ sessionId = "x2"
  /\ history[1].session_id = "x2"

\* a Claude turn takes the `result` event that completes the query
ClaudeCompletes ==
  /\ pc = "loop" /\ turnKind = "claude"
  /\ ~queryCompleted
  /\ queryCompleted'

\* the history after the step holds exactly one entry for id, and it is the
\* entry saveSession writes for the session as it is
SavedNow(id) ==
  \E i \in 1..Len(history') :
    /\ history'[i] = SavedEntry(id)
    /\ \A k \in 1..Len(history') : history'[k].session_id = id => k = i

\* C25 as stated: when the backend reports completion, sessionId is the id
\* the backend reported (the thread's id on the Codex path) and the session
\* has been saved for it in this turn, for fresh and for resumed sessions.
C25_CompletionSaves ==
  [][ (ClaudeCompletes \/ CodexCompletes) =>
        /\ (turnKind = "codex" /\ threadId # Null) => sessionId' = threadId
        /\ sessionId' # Null => SavedNow(sessionId') ]_vars

\* C25, amended: a Codex turn that takes turn.completed sets sessionId to
\* the thread's id and saves the session for it, on fresh and on resumed
\* threads alike.  A Claude turn captures and saves a session id only from
\* the first event that carries one while sessionId is null; a Claude turn
\* that holds a session id (a resumed session, or an id captured earlier)
\* keeps it and does not save, whatever the events carry, up to and
\* including `result`.
C25_CaptureSaves ==
  /\ [][ CodexCompletes =>
           IF threadId # Null
           THEN sessionId' = threadId /\ SavedNow(threadId)
           ELSE UNCHANGED <<sessionId, history>> ]_vars
  /\ [][ (pc = "loop" /\ turnKind = "claude" /\ stepsLeft' < stepsLeft) =>
           IF sessionId # Null \/ stopRequested
           THEN UNCHANGED <<sessionId, history>>
           ELSE IF sessionId' # Null
             THEN sessionId' \in ClaudeIds /\ SavedNow(sessionId')
           ELSE history' = history ]_vars

\* C25 witness: a Claude turn on the resumed session p3 has completed and
\* returned; the session file still holds the entry as the earlier run left
\* it
C25_Witness ==
  /\ turnKind = "claude"
  /\ queryCompleted
  /\ outcome = "returned"
  /\ sessionId = "p3"
  /\ history = HandlerHistory
  /\ history[2] # SavedEntry("p3")

\* C27 as stated: once stop() has answered "stopped" for a running Codex
\* turn, the next backend event of that turn is not processed and the turn
\* leaves its loop, also when the /stop handler has cleared the stop flag
\* before the event arrives.
C27_StoppedCodexLeavesLoop ==
  [][ ( /\ pc = "loop" /\ turnKind = "codex"
        /\ stepsLeft' < stepsLeft
        /\ \/ stopRequested
           \/ /\ cmdResult.op = "clearStopRequested"
              /\ cmdResult.before.isQueryRunning )
      => /\ pc' = "flush"
         /\ events' = events
         /\ inputLog' = inputLog
         /\ responseParts' = responseParts
         /\ sessionId' = sessionId ]_vars

\* C28 as stated: a turn that leaves its loop on a stop request has used the
\* request up: stopRequested is false once the loop is left, so the
\* pre-start check of the next turn finds no stop pending.
C28_StopClearedOnExit ==
  [][ (pc = "loop" /\ stopRequested /\ pc' = "flush") =>
        ~stopRequested' ]_vars

\* C29: while a turn is inside its event loop isQueryRunning is true; once
\* the loop is left, on every path (normal end, stop, ask-user wait,
\* swallowed error, thrown error), isQueryRunning is false and
\* abortController, queryStarted and currentTool are null, and they stay so
\* after the turn function has returned or thrown.
C29_LifecycleFields ==
  /\ pc \in {"loop", "blocks", "rejected"} =>
       /\ isQueryRunning
       /\ queryStarted = Date
       /\ outcome = "none"
  /\ (pc \in {"flush", "finished"} \/ TurnOver) =>
       /\ ~isQueryRunning
       /\ abortController = Null
       /\ queryStarted = Null
       /\ currentTool = Null

\* C29 witness: a Claude turn threw after a tool had been the current tool
C29_Witness ==
  /\ turnKind = "claude"
  /\ outcome = "thrown"
  /\ pendingError # "Query cancelled"
  /\ lastTool # Null
  /\ currentTool = Null
  /\ abortController = Null
  /\ ~isQueryRunning

\* a step raises an exception inside the try block of a turn: the backend
\* stream raised or reported one, or a rejection is followed by its throw
Raises ==
  \/ /\ pc = "loop"
     /\ Len(inputLog') = Len(inputLog) + 1
     /\ inputLog'[Len(inputLog')].kind \in {"throw", "error"}
  \/ pc = "rejected" /\ pc' # "rejected"

\* the message of the exception that step raises
Raised ==
  IF pc = "rejected"
  THEN pendingError
  ELSE inputLog'[Len(inputLog')].text

\* C30: on both backends an exception is swallowed (the turn leaves its try
\* block normally, goes on to return, lastError null) exactly when its text
\* contains "cancel" or "abort" and the turn had seen `result`, or the
\* ask-user wait was triggered, or a stop was requested; every other
\* exception is recorded in lastError and rethrown.
C30_SuppressionRule ==
  [][ Raises =>
        IF /\ Cleanup[Raised]
           /\ queryCompleted \/ askUserTriggered \/ stopRequested
        THEN /\ pc' = "flush"
             /\ outcome' = "none"
             /\ lastError' = Null
             /\ lastErrorTime' = Null
        ELSE /\ pc' = "finished"
             /\ outcome' = "thrown"
             /\ pendingError' = Raised
             /\ lastError' = Slice("Error: " \o Raised, 100)
             /\ lastErrorTime' = Date ]_vars

\* C30 witness: a stopped Codex turn returned although its stream raised
\* the abort error
C30_Witness ==
  /\ turnKind = "codex"
  /\ outcome = "returned"
  /\ inputLog # <<>>
  /\ LastInput = [kind |-> "throw", text |-> "Request was aborted"]
  /\ lastError = Null
  /\ stopsLeft < MaxStops

(***************************************************************************)
(* Claims about the prompt and the capture of the session id (HandlerSpec).*)
(***************************************************************************)
\* the backend conversation the turn in flight runs in is a new one: a
\* Claude query without `resume`, a Codex thread from startThread
FreshConversation ==
  IF turnKind = "codex" THEN threadId = Null ELSE sessionId = Null

\* C31 as stated: when a turn starts its query, the prompt carries the
\* date/time preamble exactly when the backend conversation is fresh,
\* a Codex thread started after a failed resume included.
C31_PreambleWhenFresh ==
  [][ (pc = "processing" /\ pc' = "loop") =>
        (startsWith(messageToSend', "[Current date/time: ")
           <=> FreshConversation') ]_vars

\* a Claude turn is between the start of its query and its return
InClaudeTurn ==
  turnKind = "claude" /\ pc \in {"loop", "blocks", "rejected", "flush"}

\* C32: within a Claude turn a session id that is set is never replaced and
\* nothing more is saved for it; the id is set only by an event of the loop
\* while sessionId is null, and that step saves exactly one entry, the one
\* of the new id; and no step writes the history leaving sessionId null.
C32_CaptureOnce ==
  /\ [][ (InClaudeTurn /\ sessionId # Null) =>
           (sessionId' = sessionId /\ history' = history) ]_vars
  /\ [][ (InClaudeTurn /\ sessionId = Null /\ sessionId' # Null) =>
           /\ pc = "loop"
           /\ sessionId' \in ClaudeIds
           /\ \E i \in 1..Len(history') : history'[i] = SavedEntry(sessionId')
           /\ Cardinality({i \in 1..Len(history') :
                             history'[i].session_id = sessionId'}) = 1
           /\ Len(history') <= Len(history) + 1 ]_vars
  /\ [][ history' # history =>
           /\ sessionId' # Null
           /\ \E i \in 1..Len(history') :
                history'[i].session_id = sessionId' ]_vars

\* C32 witness: a fresh Claude turn captured an id, saved it in front and
\* consumed a further event
C32_Witness ==
  /\ turnKind = "claude"
  /\ isNewSession
  /\ sessionId \in ClaudeIds
  /\ history # <<>>
  /\ history[1] = SavedEntry(sessionId)
  /\ stepsLeft = 0
  /\ pc = "loop"

(***************************************************************************)
(* Claims about the order of the saved sessions (PersistSpec).             *)
(***************************************************************************)
\* the ids of the saved sessions, in stored order
SavedIds(h) == [i \in 1..Len(h) |-> h[i].session_id]

\* C33: a save of an id that is already in the history replaces that entry
\* where it is, every other entry and the order staying as they were; a save
\* of a new id puts the entry at index 0 and moves every other entry one
\* place back, the entry at the tail being dropped when there were 5.
C33_SaveOrder ==
  [][ stepsLeft' < stepsLeft =>
        IF \E i \in 1..Len(history) : history[i].session_id = sessionId'
        THEN /\ SavedIds(history') = SavedIds(history)
             /\ \A i \in 1..Len(history) :
                  history'[i] = IF history[i].session_id = sessionId'
                                THEN SavedEntry(sessionId')
                                ELSE history[i]
        ELSE /\ Len(history') = Min(Len(history) + 1, MAX_SESSIONS)
             /\ history'[1] = SavedEntry(sessionId')
             /\ \A i \in 2..Len(history') : history'[i] = history[i - 1]
    ]_vars

\* C33 witness: the fourth of five saved sessions was saved again, with the
\* model now in use, and is still the fourth
C33_Witness ==
  /\ Len(history) = 5
  /\ sessionId = "c1"
  /\ history[4] = SavedEntry("c1")
  /\ history[4].model # "claude-sonnet-4-5"
  /\ history[1].session_id = "p1"
  /\ history[5].session_id = "p5"

(***************************************************************************)
(* Claims about the ask-user wait and the text updates (TurnSpec).         *)
(***************************************************************************)
\* positions of the input log that record a poll of the ask-user store
Polls == {i \in 1..Len(inputLog) : inputLog[i].kind = "poll"}

\* the ask-user tool_use block a poll belongs to: the last tool before it
AskUserOf(i) ==
  CHOOSE t \in 1..i : /\ inputLog[t].kind = "tool"
                      /\ \A k \in (t + 1)..i : inputLog[k].kind = "poll"

\* each ask-user tool is followed by one to three polls, and a poll is made
\* only when all earlier polls for the same tool found nothing
PollDiscipline ==
  /\ \A i \in Polls :
       /\ \E t \in 1..i : /\ inputLog[t].kind = "tool"
                          /\ \A k \in (t + 1)..i : inputLog[k].kind = "poll"
       /\ startsWith(inputLog[AskUserOf(i)].text, "mcp__ask-user")
       /\ i - AskUserOf(i) <= 3
       /\ \A k \in (AskUserOf(i) + 1)..(i - 1) : inputLog[k].text = "none"
  /\ \A t \in 1..Len(inputLog) :
       (inputLog[t].kind = "tool"
          /\ startsWith(inputLog[t].text, "mcp__ask-user")) =>
         (t + 1) \in Polls

\* a poll of this turn found a prompt
PromptFound == \E i \in Polls : inputLog[i].text = "found"

\* a turn that found a prompt never reads another backend event, and once
\* it has returned, it returned the sentinel after a single `done`
WaitEndsTurn ==
  /\ (InClaudeTurn \/ TurnOver) => (askUserTriggered <=> PromptFound)
  /\ askUserTriggered => pc # "loop"
  /\ (askUserTriggered /\ outcome = "returned") =>
       /\ retval = WAITING
       /\ events # <<>>
       /\ Positions("done") = {Len(events)}

\* three polls that find nothing leave the turn where it was
NoPromptContinues ==
  [][ (/\ Len(inputLog') >= Len(inputLog) + 3
       /\ \A k \in 1..3 : inputLog'[Len(inputLog') + 1 - k].text = "none"
       /\ \A k \in 1..3 : inputLog'[Len(inputLog') + 1 - k].kind = "poll") =>
        /\ askUserTriggered' = askUserTriggered
        /\ pc' = pc
        /\ outcome' = outcome ]_vars

\* C34 as stated: the store is polled at most 3 times per ask-user tool and
\* not after a poll found a prompt; a turn that found one never reads another
\* backend event and ends returned, with `done` and the waiting sentinel,
\* never thrown; three empty polls leave the turn running.
C34_AskUserWait ==
  /\ []PollDiscipline
  /\ []WaitEndsTurn
  /\ []((askUserTriggered /\ TurnOver) => outcome = "returned")
  /\ NoPromptContinues

\* C34, amended: as above, except that the turn ends thrown when a later
\* block of the same backend message is rejected by the safety checks and
\* the error is not swallowed.
C34_AskUserWaitUnlessRejected ==
  /\ []PollDiscipline
  /\ []WaitEndsTurn
  /\ []((askUserTriggered /\ TurnOver /\ outcome # "returned") =>
          /\ LastInput.kind = "rejected"
          /\ ~Cleanup[pendingError])
  /\ NoPromptContinues

\* C34 witness: the third poll found the prompt, a text block of the same
\* message followed, and the turn returned the sentinel
C34_Witness ==
  /\ outcome = "returned"
  /\ retval = WAITING
  /\ Len(inputLog) = 5
  /\ inputLog[2] = [kind |-> "poll", text |-> "none"]
  /\ inputLog[3] = [kind |-> "poll", text |-> "none"]
  /\ inputLog[4] = [kind |-> "poll", text |-> "found"]
  /\ inputLog[5].kind = "text"

\* C35 as stated: a turn that returned because the ask-user wait was
\* triggered has emitted, before `done`, a `segment_end` carrying the text
\* that was still accumulated in the open segment.
C35_WaitFlushesText ==
  (/\ turnKind = "claude"
   /\ askUserTriggered
   /\ outcome = "returned"
   /\ currentSegmentText # "") =>
    \E i \in Positions("segment_end") :
      /\ events[i].content = currentSegmentText
      /\ events[i].seg = currentSegmentId
      /\ \A d \in Positions("done") : i < d

\* C36 as stated: the step that appends a non-empty text block to a segment
\* for which nothing has been emitted yet (segment 0 or one opened after a
\* tool) emits a `text` event with the id of that segment, whatever the
\* throttle and the clock.
C36_FirstUpdateImmediate ==
  [][ (/\ pc \in {"loop", "blocks"}
       /\ currentSegmentText = ""
       /\ \A i \in SegPositions : events[i].seg # currentSegmentId
       /\ Len(inputLog') = Len(inputLog) + 1
       /\ inputLog'[Len(inputLog')].kind = "text"
       /\ inputLog'[Len(inputLog')].text # "") =>
        /\ Len(events') = Len(events) + 1
        /\ events'[Len(events')].type = "text"
        /\ events'[Len(events')].seg = currentSegmentId ]_vars

\* the text events of the segment that the segment_end at position j closes
TextsOf(j) == {i \in Positions("text") : events[i].seg = events[j].seg}

\* C37: every `text` event of a segment carries a prefix of the content of
\* the segment's `segment_end`; the contents of successive `text` events of
\* a segment never get shorter; every synthetic tail step is a proper prefix
\* of the final text, and the tail has fewer steps than the text has
\* characters.
C37_TextPrefixes ==
  /\ [](\A j \in Positions("segment_end") : \A i \in TextsOf(j) :
          /\ i < j
          /\ startsWith(events[j].content, events[i].content))
  /\ [](\A a, b \in Positions("text") :
          (a < b /\ events[a].seg = events[b].seg) =>
            Len(events[a].content) <= Len(events[b].content))
  /\ [][ (pc = "flush" /\ pc' = "finished") =>
           /\ \A k \in (Len(events) + 1)..Len(events') :
                events'[k].type = "text" =>
                  /\ events'[k].seg = currentSegmentId
                  /\ Len(events'[k].content) < Len(currentSegmentText)
                  /\ startsWith(currentSegmentText, events'[k].content)
           /\ Cardinality({k \in (Len(events) + 1)..Len(events') :
                             events'[k].type = "text"})
                <= Len(currentSegmentText) ]_vars

\* C37 witness: a segment was shown as a snapshot prefix, its tail took at
\* least two synthetic steps, and it ended with the whole text
C37_Witness ==
  /\ outcome = "returned"
  /\ Len(events) >= 5
  /\ events[Len(events) - 1].type = "segment_end"
  /\ events[Len(events) - 2].type = "text"
  /\ events[Len(events) - 3].type = "text"
  /\ events[Len(events) - 4].type = "text"
  /\ events[Len(events) - 4].seg = events[Len(events) - 1].seg
  /\ Len(events[Len(events) - 4].content) < Len(events[Len(events) - 3].content)
  /\ Len(events[Len(events) - 3].content) < Len(events[Len(events) - 2].content)
  /\ Len(events[Len(events) - 2].content) < Len(events[Len(events) - 1].content)

(***************************************************************************)
(* Claims about file access in the Claude path (TurnSpec).                 *)
(***************************************************************************)
\* the Read, Write and Edit calls that name a file
FileTools ==
  {tool \in ClaudeTools : tool[1] \in {"Read", "Write", "Edit"} /\ tool[2] # ""}

\* the access rule of the claim, per call
MayAccess ==
  [tool \in FileTools |->
     \/ isPathAllowed(tool[2])
     \/ /\ tool[1] = "Read"
        /\ \/ \E p \in TEMP_PATHS : startsWith(tool[2], p)
           \/ includes(tool[2], "/.claude/")]

\* the step handles the tool_use block `tool` and accepts it
Accepts(tool) ==
  /\ pc = "blocks" /\ turnKind = "claude"
  /\ stepsLeft' < stepsLeft
  /\ pc' = "blocks"
  /\ inputLog' = Log("tool", tool[1])
  /\ currentTool' = formatToolStatus(tool[1], tool[2])

\* the step handles the tool_use block `tool` and rejects it
Rejects(tool) ==
  /\ pc = "blocks" /\ turnKind = "claude"
  /\ stepsLeft' < stepsLeft
  /\ pc' = "rejected"
  /\ inputLog' = Log("rejected", tool[1])
  /\ pendingError' = "File access blocked: " \o tool[2]

\* C38: a Read, Write or Edit of a named file is accepted exactly when the
\* path is allowed or, for a Read only, starts with a temp path or contains
\* "/.claude/"; a rejected call emits the `tool` event "Access denied: path"
\* and nothing else, and goes on to throw "File access blocked: path".
C38_FileAccess ==
  [][ \A tool \in FileTools :
        /\ Accepts(tool) => MayAccess[tool]
        /\ Rejects(tool) =>
             /\ ~MayAccess[tool]
             /\ events' = Append(events,
                            Ev("tool", "Access denied: " \o tool[2], NoSeg))
             /\ UNCHANGED <<currentTool, lastTool, currentSegmentText>>
    ]_vars

\* C38 witness: a Read under a .claude directory outside the allowed paths
\* was accepted and a Write or Edit of the same file was then rejected
C38_Witness ==
  /\ turnKind = "claude"
  /\ pc = "rejected"
  /\ currentTool = formatToolStatus("Read", "/u/.claude/k")
  /\ pendingError = "File access blocked: /u/.claude/k"
  /\ events[Len(events)] = Ev("tool", "Access denied: /u/.claude/k", NoSeg)

\* ---------------------------------------------------------------------------
\* Claims about the transport's status callback (TurnSpec)
\* ---------------------------------------------------------------------------

\* StreamingState of handlers/streaming.ts: the segment ids that have a chat
\* message, and for each the contents that message may be showing (an edit of
\* an existing message is throttled by the transport's own clock, so after a
\* later `text` event either the old or the new content is on screen)
NewStreamingState == [textMessages |-> {}, shown |-> [s \in {} |-> {}]]

\* createStatusCallback: what one event does to the chat messages of the text
\* segments. `thinking`, `tool` and `done` only touch the tool messages.
statusCallback(state, ev) ==
  IF ev.type = "text" /\ ev.seg # NoSeg
  THEN IF ev.seg \notin state.textMessages
       THEN [textMessages |-> state.textMessages \cup {ev.seg},
             shown |-> [s \in state.textMessages \cup {ev.seg} |->
                          IF s = ev.seg THEN {ev.content} ELSE state.shown[s]]]
       ELSE [state EXCEPT !.shown[ev.seg] = @ \cup {ev.content}]
  ELSE IF ev.type = "segment_end" /\ ev.seg # NoSeg
  THEN IF ev.seg \in state.textMessages /\ ev.content # ""
       THEN [state EXCEPT !.shown[ev.seg] = {ev.content}]
       ELSE state
  ELSE state

\* the transport after the first n events of the turn reached the callback
RECURSIVE Transport(_, _)
Transport(evs, n) ==
  IF n = 0 THEN NewStreamingState
  ELSE statusCallback(Transport(evs, n - 1), evs[n])

\* the chat has a message for the segment of ev that shows exactly its content
Shows(state, ev) ==
  /\ ev.seg \in state.textMessages
  /\ state.shown[ev.seg] = {ev.content}

\* C39 as stated: once a `segment_end` with non-empty content has reached the
\* status callback, the chat holds a message for that segment showing that
\* content, whether or not a `text` event of the segment came before.
C39_SegmentEndShown ==
  \A i \in Positions("segment_end") :
    events[i].content # "" => Shows(Transport(events, i), events[i])

\* the same, restricted to the segments that had a `text` event before
C39_ShownAfterText ==
  \A i \in Positions("segment_end") :
    (events[i].content # "" /\ \E j \in TextsOf(i) : j < i) =>
      Shows(Transport(events, i), events[i])

\* ---------------------------------------------------------------------------
\* Claims about /new with a turn in flight (NewSpec)
\* ---------------------------------------------------------------------------

\* /new has just finished, and a query was running when its kill() was called
NewWithTurnInFlight ==
  /\ cmdResult.op = "handleNew"
  /\ cmdResult.before.isQueryRunning

\* C40 as stated: after /new has finished (stop, wait, clear the stop flag,
\* kill), the turn that was in flight neither sets sessionId nor saves a
\* session: sessionId stays null and the history is left as it was.
C40_NewStaysFresh ==
  [][ NewWithTurnInFlight => /\ sessionId' = Null
                             /\ history' = history ]_vars

\* the part that does hold: when /new finishes, sessionId is null
C40_NewClears ==
  cmdResult.op = "handleNew" => sessionId = Null /\ lastActivity = Null

====
